---- MODULE Spec2Model ----
(***************************************************************************)
(* Graph structures and graph processors of data-structures-javascript.    *)
(*                                                                         *)
(* A graph is an adjacency list: a JavaScript object whose own keys are    *)
(* the vertices (always strings) and whose values are arrays.  A processor *)
(* is built on a graph and derives its results from it.                    *)
(***************************************************************************)
EXTENDS Integers, Sequences, FiniteSets, Bags, TLC

(***************************************************************************)
(* Bounds                                                                  *)
(***************************************************************************)
\* number of vertex names available to the unweighted graphs
NumVertices == 3
\* number of addEdge calls on an unweighted graph
MaxEdges == 4
\* number of addEdge calls on an edge-weighted graph
MaxWeightedEdges == 3

(***************************************************************************)
(* JavaScript values                                                       *)
(***************************************************************************)
\* Integer-like property names, in ascending numeric order.
AllNames == <<"0", "1", "2", "3", "4", "5">>

Vertices == {AllNames[i] : i \in 1..NumVertices}

\* What a caller may pass for a vertex: the number i or the string "i".
VertexInputs ==
  [type : {"number"}, value : 0..(NumVertices - 1)]
    \cup [type : {"string"}, value : Vertices]

\* String(v): a number becomes its decimal numeral, a string is kept.
JSString(v) == IF v.type = "number" THEN AllNames[v.value + 1] ELSE v.value

\* Own keys of an object in for...in order: integer-like keys ascend
\* numerically, whatever the order they were created in.
RECURSIVE ForInFrom(_, _)
ForInFrom(obj, i) ==
  IF i > Len(AllNames) THEN <<>>
  ELSE IF AllNames[i] \in DOMAIN obj
       THEN <<AllNames[i]>> \o ForInFrom(obj, i + 1)
       ELSE ForInFrom(obj, i + 1)

ForIn(obj) == ForInFrom(obj, 1)

\* obj[key] = value on an object modelled as a function
Put(obj, key, value) ==
  [k \in DOMAIN obj \cup {key} |-> IF k = key THEN value ELSE obj[k]]

EmptyObject == [k \in {} |-> <<>>]

(***************************************************************************)
(* State                                                                   *)
(***************************************************************************)
VARIABLES
  graphClass,      \* class of the graph instance
  adjacencyList,   \* graph.adjacencyList
  totalVertices,   \* graph.totalVertices
  totalEdges,      \* graph.totalEdges
  lastError,       \* message of the error the last call threw, "" if none
  processor,       \* class of the processor built on the graph, "none" if none
  initialized,     \* processor.initialized (explicit-initialize processors)
  checkCycle,      \* DirectedCycle/UndirectedCycle.checkCycle (eager processors)
  hasCycle,        \* DirectedCycle.hasCycle (explicit): "null", "true", "false"
  sorted,          \* TopologicalSort.sorted
  sourceVertex,    \* ShortestPath.sourceVertex
  distanceFromSource,  \* ShortestPath.distanceFromSource
  parent,          \* ShortestPath.parent
  visited,         \* ShortestPath.visited
  minPQ,           \* the priority queue of initializeDijkstra
  phase,           \* where the processing pass is: "idle", "loop", "done", "threw"
  returned,        \* what the last call returned, Undefined if not a query
  reversedGraph,   \* DirectedGraph.reversedGraph, not defined before reverse()
  MSTvertices,     \* the Set MSTvertices of initializeMST
  MSTedges,        \* MinimumSpanningTree.minimumSpanningTree
  priorityQueue,   \* the priority queue of initializeMST
  componentCount,  \* ConnectedComponents.componentCount
  id,              \* ConnectedComponents.id
  structure,       \* class of the data structure instance, "none" if none
  heap,            \* MinPriorityQueue.heap from index 1 on (heap[0] is null)
  ring,            \* CircularQueue.ring, the indices that hold a value
  size,            \* CircularQueue.size
  oldest,          \* CircularQueue.oldest
  newest,          \* CircularQueue.newest
  storage,         \* Stack.storage
  maxes,           \* Stack.maxes
  capacity,        \* Stack.capacity
  bfsQueue,        \* initializeBFS: let queue
  bfsNextQueue,    \* initializeBFS: let nextQueue
  bfsDistance,     \* initializeBFS: let distance
  queueIndex,      \* initializeBFS: entries of queue that queue.forEach is past
  edgeIndex,       \* initializeBFS: entries the inner forEach is past
  callStack        \* depthFirstSearch: the calls in progress, innermost last

graphVars == <<graphClass, adjacencyList, totalVertices, totalEdges>>
cycleVars == <<initialized, checkCycle, hasCycle>>
pathVars == <<sourceVertex, distanceFromSource, parent, visited, minPQ, phase>>
mstVars == <<MSTvertices, MSTedges, priorityQueue>>
componentVars == <<componentCount, id>>
structureVars == <<structure, heap, ring, size, oldest, newest, storage, maxes,
                   capacity>>
searchVars == <<bfsQueue, bfsNextQueue, bfsDistance, queueIndex, edgeIndex,
                callStack>>
vars == <<graphClass, adjacencyList, totalVertices, totalEdges, lastError,
          processor, initialized, checkCycle, hasCycle, sorted,
          sourceVertex, distanceFromSource, parent, visited, minPQ, phase,
          returned, reversedGraph, MSTvertices, MSTedges, priorityQueue,
          componentCount, id, structure, heap, ring, size, oldest, newest,
          storage, maxes, capacity, bfsQueue, bfsNextQueue, bfsDistance,
          queueIndex,
          edgeIndex, callStack>>

\* JavaScript values a query returns; a call that never returns has kind "never"
Returned(kind, number, array, boolean) ==
  [kind |-> kind, number |-> number, array |-> array, boolean |-> boolean]

Undefined == Returned("undefined", 0, <<>>, FALSE)
Null == Returned("null", 0, <<>>, FALSE)
Never == Returned("never", 0, <<>>, FALSE)
Thrown == Returned("thrown", 0, <<>>, FALSE)

NoProcessorState ==
  /\ processor = "none"
  /\ initialized = FALSE
  /\ checkCycle = FALSE
  /\ hasCycle = "null"
  /\ sorted = <<>>
  /\ sourceVertex = ""
  /\ distanceFromSource = EmptyObject
  /\ parent = EmptyObject
  /\ visited = {}
  /\ minPQ = EmptyBag
  /\ phase = "idle"
  /\ returned = Undefined
  /\ reversedGraph = [defined |-> FALSE, object |-> EmptyObject]
  /\ MSTvertices = {}
  /\ MSTedges = {}
  /\ priorityQueue = EmptyBag
  /\ componentCount = 0
  /\ id = EmptyObject
  /\ bfsQueue = <<>>
  /\ bfsNextQueue = <<>>
  /\ bfsDistance = 0
  /\ queueIndex = 0
  /\ edgeIndex = 0
  /\ callStack = <<>>

\* no data structure has been constructed
NoStructureState ==
  /\ structure = "none"
  /\ heap = <<>>
  /\ ring = <<>>
  /\ size = 0
  /\ oldest = 0
  /\ newest = 0
  /\ storage = <<>>
  /\ maxes = <<>>
  /\ capacity = 0

\* new DirectedGraph(): buildGraph over an empty edge list
InitDirected ==
  /\ graphClass = "DirectedGraph"
  /\ adjacencyList = EmptyObject
  /\ totalVertices = 0
  /\ totalEdges = 0
  /\ lastError = ""
  /\ NoProcessorState
  /\ NoStructureState

(***************************************************************************)
(* DirectedGraph                                                           *)
(***************************************************************************)
\* addVertex without the check for a vertex that exists
DirectedGraph_addVertex_Reset(v) ==
  /\ graphClass = "DirectedGraph"
  /\ processor = "none"
  /\ adjacencyList' = [k \in DOMAIN adjacencyList \cup {JSString(v)} |->
                         IF k = JSString(v) THEN <<>> ELSE adjacencyList[k]]
  /\ totalVertices' = totalVertices + 1
  /\ lastError' = ""
  /\ returned' = Undefined
  /\ UNCHANGED <<graphClass, totalEdges>>
  /\ UNCHANGED <<processor, cycleVars, sorted, pathVars>>
  /\ UNCHANGED <<reversedGraph, mstVars, componentVars>>
  /\ UNCHANGED structureVars
  /\ UNCHANGED searchVars

\* DirectedGraph.addVertex(vertex)
DirectedGraph_addVertex(v) ==
  /\ graphClass = "DirectedGraph"
  /\ processor = "none"
  /\ IF JSString(v) \in DOMAIN adjacencyList
     THEN /\ lastError' = "That node already exists in the graph"
          /\ UNCHANGED graphVars
     ELSE /\ adjacencyList' = Put(adjacencyList, JSString(v), <<>>)
          /\ totalVertices' = totalVertices + 1
          /\ lastError' = ""
          /\ UNCHANGED <<graphClass, totalEdges>>
  /\ returned' = Undefined
  /\ UNCHANGED <<processor, cycleVars, sorted, pathVars>>
  /\ UNCHANGED <<reversedGraph, mstVars, componentVars>>
  /\ UNCHANGED structureVars
  /\ UNCHANGED searchVars

\* the adjacency list after the two conditional addVertex calls of addEdge
WithVertices(adj, k1, k2) ==
  LET a1 == IF k1 \in DOMAIN adj THEN adj ELSE Put(adj, k1, <<>>)
  IN  IF k2 \in DOMAIN a1 THEN a1 ELSE Put(a1, k2, <<>>)

\* DirectedGraph.addEdge([v1, v2])
DirectedGraph_addEdge(v1, v2) ==
  /\ graphClass = "DirectedGraph"
  /\ processor = "none"
  /\ totalEdges < MaxEdges
  /\ LET k1 == JSString(v1)
         k2 == JSString(v2)
         added == WithVertices(adjacencyList, k1, k2)
     IN  /\ adjacencyList' = [added EXCEPT ![k1] = Append(@, JSString(v2))]
         /\ totalVertices' = totalVertices + Cardinality(DOMAIN added)
                               - Cardinality(DOMAIN adjacencyList)
  /\ totalEdges' = totalEdges + 1
  /\ lastError' = ""
  /\ returned' = Undefined
  /\ UNCHANGED <<graphClass, processor, cycleVars, sorted, pathVars>>
  /\ UNCHANGED <<reversedGraph, mstVars, componentVars>>
  /\ UNCHANGED structureVars
  /\ UNCHANGED searchVars

(***************************************************************************)
(* DirectedCycle, eager: processors/graph.unweighted.directed.cycle.js     *)
(***************************************************************************)
RECURSIVE DirectedCycle_depthFirstSearch(_, _, _, _)
RECURSIVE DirectedCycle_forOf(_, _, _, _, _)

\* depthFirstSearch testing the visited Set before visitedThisPass
DirectedCycle_forOf_VisitedFirst(adj, vertex, i, visitedSet, visitedThisPass) ==
  IF i > Len(adj[vertex])
  THEN [ret |-> FALSE, threw |-> FALSE,
        visited |-> visitedSet, visitedThisPass |-> visitedThisPass]
  ELSE LET adjacentVertex == adj[vertex][i] IN
       IF adjacentVertex \in visitedSet
       THEN DirectedCycle_forOf(adj, vertex, i + 1, visitedSet, visitedThisPass)
       ELSE IF adjacentVertex \in visitedThisPass
       THEN [ret |-> TRUE, threw |-> FALSE,
             visited |-> visitedSet, visitedThisPass |-> visitedThisPass]
       ELSE LET r == DirectedCycle_depthFirstSearch(
                       adj, adjacentVertex,
                       visitedSet \cup {adjacentVertex},
                       visitedThisPass \cup {adjacentVertex})
            IN  IF r.threw \/ r.ret
                THEN r
                ELSE DirectedCycle_forOf(adj, vertex, i + 1,
                                         r.visited, r.visitedThisPass)

\* the for...of loop of depthFirstSearch from the i-th adjacent vertex on;
\* visitedSet and visitedThisPass are the two Sets the calls share and mutate
DirectedCycle_forOf(adj, vertex, i, visitedSet, visitedThisPass) ==
  IF i > Len(adj[vertex])
  THEN [ret |-> FALSE, threw |-> FALSE,
        visited |-> visitedSet, visitedThisPass |-> visitedThisPass]
  ELSE LET adjacentVertex == adj[vertex][i] IN
       IF adjacentVertex \in visitedThisPass
       THEN [ret |-> TRUE, threw |-> FALSE,
             visited |-> visitedSet, visitedThisPass |-> visitedThisPass]
       ELSE IF adjacentVertex \in visitedSet
       THEN DirectedCycle_forOf(adj, vertex, i + 1, visitedSet, visitedThisPass)
       ELSE LET r == DirectedCycle_depthFirstSearch(
                       adj, adjacentVertex,
                       visitedSet \cup {adjacentVertex},
                       visitedThisPass \cup {adjacentVertex})
            IN  IF r.threw \/ r.ret
                THEN r
                ELSE DirectedCycle_forOf(adj, vertex, i + 1,
                                         r.visited, r.visitedThisPass)

DirectedCycle_depthFirstSearch(adj, vertex, visitedSet, visitedThisPass) ==
  IF vertex \notin DOMAIN adj
  THEN [ret |-> FALSE, threw |-> TRUE,
        visited |-> visitedSet, visitedThisPass |-> visitedThisPass]
  ELSE DirectedCycle_forOf(adj, vertex, 1, visitedSet, visitedThisPass)

\* the for...in loop of hasCycle(graph) from the i-th key on
RECURSIVE DirectedCycle_forIn(_, _, _, _)
DirectedCycle_forIn(adj, keys, i, visitedSet) ==
  IF i > Len(keys) THEN [ret |-> FALSE, threw |-> FALSE]
  ELSE LET vertex == keys[i] IN
       IF vertex \in visitedSet
       THEN DirectedCycle_forIn(adj, keys, i + 1, visitedSet)
       ELSE LET r == DirectedCycle_depthFirstSearch(adj, vertex, visitedSet, {vertex})
            IN  IF r.threw \/ r.ret
                THEN [ret |-> r.ret, threw |-> r.threw]
                ELSE DirectedCycle_forIn(adj, keys, i + 1, r.visited)

\* hasCycle(graph)
DirectedCycle_hasCycle(adj) == DirectedCycle_forIn(adj, ForIn(adj), 1, {})

\* new DirectedCycle(graph)
DirectedCycle_constructor ==
  /\ graphClass = "DirectedGraph"
  /\ processor = "none"
  /\ LET r == DirectedCycle_hasCycle(adjacencyList) IN
       IF r.threw
       THEN /\ lastError' = "The input vertex is not in the graph"
            /\ UNCHANGED <<processor, checkCycle>>
       ELSE /\ processor' = "DirectedCycle"
            /\ checkCycle' = r.ret
            /\ lastError' = ""
  /\ returned' = Undefined
  /\ UNCHANGED <<graphVars, initialized, hasCycle, sorted, pathVars>>
  /\ UNCHANGED <<reversedGraph, mstVars, componentVars>>
  /\ UNCHANGED structureVars
  /\ UNCHANGED searchVars

(***************************************************************************)
(* DirectedCycle, explicit initialize():                                   *)
(* structures/graphs/processors/directed/Cycle.js                          *)
(***************************************************************************)
RECURSIVE Cycle_depthFirstSearch(_, _, _, _, _)
RECURSIVE Cycle_forOf(_, _, _, _, _, _)

\* the for...of loop of depthFirstSearch from the i-th adjacent vertex on;
\* flag is cycleProcessor.hasCycle, which the calls set as a side effect
Cycle_forOf(adj, vertex, i, visitedSet, visitedThisPass, flag) ==
  IF i > Len(adj[vertex])
  THEN [threw |-> FALSE, visitedThisPass |-> visitedThisPass, hasCycle |-> flag]
  ELSE LET adjacentVertex == adj[vertex][i] IN
       IF adjacentVertex \in visitedThisPass
       THEN [threw |-> FALSE, visitedThisPass |-> visitedThisPass,
             hasCycle |-> "true"]
       ELSE IF adjacentVertex \in visitedSet
       THEN Cycle_forOf(adj, vertex, i + 1, visitedSet, visitedThisPass, flag)
       ELSE LET r == Cycle_depthFirstSearch(
                       adj, adjacentVertex, visitedSet,
                       visitedThisPass \cup {adjacentVertex}, flag)
            IN  IF r.threw
                THEN r
                ELSE Cycle_forOf(adj, vertex, i + 1, visitedSet,
                                 r.visitedThisPass, r.hasCycle)

Cycle_depthFirstSearch(adj, vertex, visitedSet, visitedThisPass, flag) ==
  IF vertex \notin DOMAIN adj
  THEN [threw |-> TRUE, visitedThisPass |-> visitedThisPass, hasCycle |-> flag]
  ELSE Cycle_forOf(adj, vertex, 1, visitedSet, visitedThisPass, flag)

\* joinSets(a, b)
Cycle_joinSets(a, b) == a \cup b

\* the for...in loop of initialize() from the i-th key on
RECURSIVE Cycle_forIn(_, _, _, _, _)
Cycle_forIn(adj, keys, i, visitedSet, flag) ==
  IF i > Len(keys) THEN [threw |-> FALSE, hasCycle |-> "false"]
  ELSE LET vertex == keys[i] IN
       IF vertex \in visitedSet
       THEN Cycle_forIn(adj, keys, i + 1, visitedSet, flag)
       ELSE LET r == Cycle_depthFirstSearch(adj, vertex, visitedSet, {vertex}, flag)
            IN  IF r.threw \/ r.hasCycle = "true"
                THEN [threw |-> r.threw, hasCycle |-> r.hasCycle]
                ELSE Cycle_forIn(adj, keys, i + 1,
                                 Cycle_joinSets(visitedSet, r.visitedThisPass),
                                 r.hasCycle)

\* new DirectedCycle(graph), Cycle.js
Cycle_constructor ==
  /\ graphClass = "DirectedGraph"
  /\ processor = "none"
  /\ processor' = "DirectedCycleExplicit"
  /\ hasCycle' = "null"
  /\ initialized' = FALSE
  /\ lastError' = ""
  /\ returned' = Undefined
  /\ UNCHANGED <<graphVars, checkCycle, sorted, pathVars>>
  /\ UNCHANGED <<reversedGraph, mstVars, componentVars>>
  /\ UNCHANGED structureVars
  /\ UNCHANGED searchVars

\* DirectedCycle.initialize(), Cycle.js
Cycle_initialize ==
  /\ processor = "DirectedCycleExplicit"
  /\ IF initialized
     THEN /\ lastError' = "Already initialized, my friend!"
          /\ UNCHANGED <<initialized, hasCycle>>
     ELSE LET r == Cycle_forIn(adjacencyList, ForIn(adjacencyList), 1, {},
                               hasCycle)
          IN  /\ initialized' = TRUE
              /\ hasCycle' = r.hasCycle
              /\ lastError' = IF r.threw
                              THEN "The input vertex is not in the graph, my friend!"
                              ELSE ""
  /\ returned' = Undefined
  /\ UNCHANGED <<graphVars, processor, checkCycle, sorted, pathVars>>
  /\ UNCHANGED <<reversedGraph, mstVars, componentVars>>
  /\ UNCHANGED structureVars
  /\ UNCHANGED searchVars

(***************************************************************************)
(* TopologicalSort, eager: processors/graph.unweighted.directed.           *)
(* topological-sort.js                                                     *)
(***************************************************************************)
RECURSIVE TopologicalSort_depthFirstSearch(_, _, _, _)
RECURSIVE TopologicalSort_forEach(_, _, _, _, _)

\* the forEach of depthFirstSearch from the i-th adjacent vertex on
TopologicalSort_forEach(adj, srt, vertex, i, visitedSet) ==
  IF i > Len(adj[vertex])
  THEN [sorted |-> srt, visited |-> visitedSet]
  ELSE LET adjacentVertex == adj[vertex][i] IN
       IF adjacentVertex \in visitedSet
       THEN TopologicalSort_forEach(adj, srt, vertex, i + 1, visitedSet)
       ELSE LET r == TopologicalSort_depthFirstSearch(
                       adj, srt, adjacentVertex, visitedSet \cup {adjacentVertex})
            IN  TopologicalSort_forEach(adj, r.sorted, vertex, i + 1, r.visited)

\* depthFirstSearch pushing the vertex before its adjacent vertices
TopologicalSort_depthFirstSearch_PreOrder(adj, srt, vertex, visitedSet) ==
  TopologicalSort_forEach(adj, Append(srt, vertex), vertex, 1, visitedSet)

TopologicalSort_depthFirstSearch(adj, srt, vertex, visitedSet) ==
  LET r == TopologicalSort_forEach(adj, srt, vertex, 1, visitedSet)
  IN  [sorted |-> Append(r.sorted, vertex), visited |-> r.visited]

\* the for...in loop of initializeSort from the i-th key on
RECURSIVE TopologicalSort_forIn(_, _, _, _, _)
TopologicalSort_forIn(adj, srt, keys, i, visitedSet) ==
  IF i > Len(keys) THEN srt
  ELSE LET vertex == keys[i] IN
       IF vertex \in visitedSet
       THEN TopologicalSort_forIn(adj, srt, keys, i + 1, visitedSet)
       ELSE LET r == TopologicalSort_depthFirstSearch(
                       adj, srt, vertex, visitedSet \cup {vertex})
            IN  TopologicalSort_forIn(adj, r.sorted, keys, i + 1, r.visited)

\* initializeSort without the cycle check
TopologicalSort_initializeSort_Unchecked(adj, srt) ==
  [error |-> "", sorted |-> TopologicalSort_forIn(adj, srt, ForIn(adj), 1, {})]

\* initializeSort(graph, sorted)
TopologicalSort_initializeSort(adj, srt) ==
  LET cycle == DirectedCycle_hasCycle(adj) IN
    IF cycle.threw
    THEN [error |-> "The input vertex is not in the graph", sorted |-> srt]
    ELSE IF cycle.ret
    THEN [error |->
            "Cycle found. Topological sort requires no cycles in the graph.",
          sorted |-> srt]
    ELSE [error |-> "",
          sorted |-> TopologicalSort_forIn(adj, srt, ForIn(adj), 1, {})]

\* new TopologicalSort(graph)
TopologicalSort_constructor ==
  /\ graphClass = "DirectedGraph"
  /\ processor = "none"
  /\ LET r == TopologicalSort_initializeSort(adjacencyList, <<>>) IN
       /\ processor' = "TopologicalSort"
       /\ sorted' = r.sorted
       /\ lastError' = r.error
  /\ returned' = Undefined
  /\ UNCHANGED <<graphVars, cycleVars, pathVars>>
  /\ UNCHANGED <<reversedGraph, mstVars, componentVars>>
  /\ UNCHANGED structureVars
  /\ UNCHANGED searchVars

(***************************************************************************)
(* TopologicalSort, explicit initialize():                                 *)
(* structures/graphs/processors/directed/TopologicalSort.js                *)
(***************************************************************************)
RECURSIVE Sort_depthFirstSearch(_, _, _, _)
RECURSIVE Sort_forEach(_, _, _, _, _)

\* the forEach of depthFirstSearch from the i-th adjacent vertex on
Sort_forEach(adj, vertex, i, visitedSet, srt) ==
  IF i > Len(adj[vertex])
  THEN [sorted |-> srt, visited |-> visitedSet]
  ELSE LET adjacentVertex == adj[vertex][i] IN
       IF adjacentVertex \in visitedSet
       THEN Sort_forEach(adj, vertex, i + 1, visitedSet, srt)
       ELSE LET r == Sort_depthFirstSearch(
                       adj, adjacentVertex, visitedSet \cup {adjacentVertex}, srt)
            IN  Sort_forEach(adj, vertex, i + 1, r.visited, r.sorted)

Sort_depthFirstSearch(adj, vertex, visitedSet, srt) ==
  LET r == Sort_forEach(adj, vertex, 1, visitedSet, srt)
  IN  [sorted |-> Append(r.sorted, vertex), visited |-> r.visited]

\* the for...in loop of initialize() from the i-th key on
RECURSIVE Sort_forIn(_, _, _, _, _)
Sort_forIn(adj, keys, i, visitedSet, srt) ==
  IF i > Len(keys) THEN srt
  ELSE LET vertex == keys[i] IN
       IF vertex \in visitedSet
       THEN Sort_forIn(adj, keys, i + 1, visitedSet, srt)
       ELSE LET r == Sort_depthFirstSearch(
                       adj, vertex, visitedSet \cup {vertex}, srt)
            IN  Sort_forIn(adj, keys, i + 1, r.visited, r.sorted)

\* new TopologicalSort(graph), TopologicalSort.js
Sort_constructor ==
  /\ graphClass = "DirectedGraph"
  /\ processor = "none"
  /\ processor' = "TopologicalSortExplicit"
  /\ sorted' = <<>>
  /\ initialized' = FALSE
  /\ lastError' = ""
  /\ returned' = Undefined
  /\ UNCHANGED <<graphVars, checkCycle, hasCycle, pathVars>>
  /\ UNCHANGED <<reversedGraph, mstVars, componentVars>>
  /\ UNCHANGED structureVars
  /\ UNCHANGED searchVars

\* TopologicalSort.initialize(), TopologicalSort.js
Sort_initialize ==
  /\ processor = "TopologicalSortExplicit"
  /\ IF initialized
     THEN /\ lastError' = "Already initialized, my friend!"
          /\ UNCHANGED <<initialized, sorted>>
     ELSE LET cycle == Cycle_forIn(adjacencyList, ForIn(adjacencyList), 1, {},
                                   "null")
          IN  IF cycle.threw
              THEN /\ lastError' =
                        "The input vertex is not in the graph, my friend!"
                   /\ UNCHANGED <<initialized, sorted>>
              ELSE IF cycle.hasCycle = "true"
              THEN /\ lastError' =
                        "Cycle found. Topological sort requires no cycles in the graph."
                   /\ UNCHANGED <<initialized, sorted>>
              ELSE /\ initialized' = TRUE
                   /\ sorted' = Sort_forIn(adjacencyList, ForIn(adjacencyList),
                                           1, {}, sorted)
                   /\ lastError' = ""
  /\ returned' = Undefined
  /\ UNCHANGED <<graphVars, processor, checkCycle, hasCycle, pathVars>>
  /\ UNCHANGED <<reversedGraph, mstVars, componentVars>>
  /\ UNCHANGED structureVars
  /\ UNCHANGED searchVars

(***************************************************************************)
(* What a directed graph is                                                *)
(***************************************************************************)
\* u -> v is an edge
Edge(adj, u, v) == \E i \in 1..Len(adj[u]) : adj[u][i] = v

\* vertices reachable from u by at least one edge
RECURSIVE ReachFrom(_, _)
ReachFrom(adj, frontier) ==
  LET next == frontier \cup
                {v \in DOMAIN adj : \E u \in frontier : Edge(adj, u, v)}
  IN  IF next = frontier THEN frontier ELSE ReachFrom(adj, next)

Successors(adj, u) == {v \in DOMAIN adj : Edge(adj, u, v)}
Descendants(adj, u) == ReachFrom(adj, Successors(adj, u))

\* some vertex reaches itself: a self-loop, a 2-cycle or a longer cycle
HasDirectedCycle(adj) == \E u \in DOMAIN adj : u \in Descendants(adj, u)

SpecDirectedNext ==
  \/ \E v \in VertexInputs : DirectedGraph_addVertex(v)
  \/ \E v1, v2 \in VertexInputs : DirectedGraph_addEdge(v1, v2)
  \/ DirectedCycle_constructor
  \/ Cycle_constructor
  \/ Cycle_initialize
  \/ TopologicalSort_constructor
  \/ Sort_constructor
  \/ Sort_initialize

SpecDirected == InitDirected /\ [][SpecDirectedNext]_vars

CycleFound == "Cycle found. Topological sort requires no cycles in the graph."

\* position of vertex v in the sequence srt, 0 if absent
Position(srt, v) ==
  IF \E i \in 1..Len(srt) : srt[i] = v
  THEN CHOOSE i \in 1..Len(srt) : srt[i] = v
  ELSE 0

\* srt lists every vertex once, every edge's head before its tail
IsFinishOrder(adj, srt) ==
  /\ Len(srt) = Cardinality(DOMAIN adj)
  /\ {srt[i] : i \in 1..Len(srt)} = DOMAIN adj
  /\ \A u, v \in DOMAIN adj :
       Edge(adj, u, v) => Position(srt, v) < Position(srt, u)

\* C1: whenever the directed graph has a directed cycle (self-loop, 2-cycle
\* or longer, anywhere in the scan order), DirectedCycle reports a cycle
C1_CycleIsReported ==
  /\ (processor = "DirectedCycle" /\ HasDirectedCycle(adjacencyList))
       => checkCycle = TRUE
  /\ (processor = "DirectedCycleExplicit" /\ initialized
        /\ HasDirectedCycle(adjacencyList))
       => hasCycle = "true"

\* a cycle that the first scanned vertex leads to but is not on
C1_Witness ==
  /\ processor = "DirectedCycle"
  /\ checkCycle = TRUE
  /\ "0" \in DOMAIN adjacencyList
  /\ Successors(adjacencyList, "0") # {}
  /\ "0" \notin Descendants(adjacencyList, "0")
  /\ \E u \in DOMAIN adjacencyList :
       u \in Descendants(adjacencyList, u) /\ ~Edge(adjacencyList, u, u)

\* C2: whenever the directed graph has no directed cycle (converging paths
\* and parallel edges included), DirectedCycle reports no cycle
C2_NoCycleNoReport ==
  /\ (processor = "DirectedCycle" /\ ~HasDirectedCycle(adjacencyList))
       => checkCycle = FALSE
  /\ (processor = "DirectedCycleExplicit" /\ initialized
        /\ ~HasDirectedCycle(adjacencyList))
       => hasCycle = "false"

\* C3: whenever TopologicalSort completes without error, sorted holds every
\* vertex exactly once and, for every edge u -> v, v before u
C3_SortedIsFinishOrder ==
  /\ (processor = "TopologicalSort" /\ lastError = "")
       => IsFinishOrder(adjacencyList, sorted)
  /\ (processor = "TopologicalSortExplicit" /\ initialized)
       => IsFinishOrder(adjacencyList, sorted)

\* a completed sort of three vertices joined by edges
C3_Witness ==
  /\ processor = "TopologicalSort"
  /\ lastError = ""
  /\ Len(sorted) = 3
  /\ totalEdges >= 2
  /\ \E u, v, w \in DOMAIN adjacencyList :
       Edge(adjacencyList, u, v) /\ Edge(adjacencyList, v, w)

\* C4: building or initializing TopologicalSort on a graph with a directed
\* cycle raises the cycle error and leaves sorted empty
C4_CycleRaises ==
  [][(HasDirectedCycle(adjacencyList)
        /\ (TopologicalSort_constructor \/ Sort_initialize))
       => (lastError' = CycleFound /\ sorted' = <<>>)]_vars

\* the sort was refused on a graph whose cycle is not a self-loop
C4_Witness ==
  /\ processor \in {"TopologicalSort", "TopologicalSortExplicit"}
  /\ lastError = CycleFound
  /\ sorted = <<>>
  /\ \E u \in DOMAIN adjacencyList :
       u \in Descendants(adjacencyList, u) /\ ~Edge(adjacencyList, u, u)

\* C5: on every directed acyclic graph TopologicalSort does not raise the
\* cycle error; it completes and produces an order
C5_DagIsSorted ==
  (processor \in {"TopologicalSort", "TopologicalSortExplicit"}
     /\ ~HasDirectedCycle(adjacencyList))
    => /\ lastError # CycleFound
       /\ processor = "TopologicalSort"
            => (lastError = "" /\ IsFinishOrder(adjacencyList, sorted))

(***************************************************************************)
(* UndirectedGraph: structures/graph.unweighted.undirected.js              *)
(***************************************************************************)
\* new UndirectedGraph(): buildGraph over an empty edge list
InitUndirected ==
  /\ graphClass = "UndirectedGraph"
  /\ adjacencyList = EmptyObject
  /\ totalVertices = 0
  /\ totalEdges = 0
  /\ lastError = ""
  /\ NoProcessorState
  /\ NoStructureState

\* UndirectedGraph.addVertex(vertex)
UndirectedGraph_addVertex(v) ==
  /\ graphClass = "UndirectedGraph"
  /\ processor = "none"
  /\ IF JSString(v) \in DOMAIN adjacencyList
     THEN /\ lastError' = "That node already exists in the graph"
          /\ UNCHANGED graphVars
     ELSE /\ adjacencyList' = Put(adjacencyList, JSString(v), <<>>)
          /\ totalVertices' = totalVertices + 1
          /\ lastError' = ""
          /\ UNCHANGED <<graphClass, totalEdges>>
  /\ returned' = Undefined
  /\ UNCHANGED <<processor, cycleVars, sorted, pathVars>>
  /\ UNCHANGED <<reversedGraph, mstVars, componentVars>>
  /\ UNCHANGED structureVars
  /\ UNCHANGED searchVars

\* addEdge pushing a self-loop once only
UndirectedGraph_addEdge_SelfLoopOnce(v1, v2) ==
  /\ graphClass = "UndirectedGraph"
  /\ processor = "none"
  /\ totalEdges < MaxEdges
  /\ LET k1 == JSString(v1)
         k2 == JSString(v2)
         added == WithVertices(adjacencyList, k1, k2)
         first == [added EXCEPT ![k1] = Append(@, JSString(v2))]
     IN  /\ adjacencyList' = IF k1 = k2 THEN first
                            ELSE [first EXCEPT ![k2] = Append(@, JSString(v1))]
         /\ totalVertices' = totalVertices + Cardinality(DOMAIN added)
                               - Cardinality(DOMAIN adjacencyList)
  /\ totalEdges' = totalEdges + 1
  /\ lastError' = ""
  /\ returned' = Undefined
  /\ UNCHANGED <<graphClass, processor, cycleVars, sorted, pathVars>>
  /\ UNCHANGED <<reversedGraph, mstVars, componentVars>>
  /\ UNCHANGED structureVars
  /\ UNCHANGED searchVars

\* UndirectedGraph.addEdge([v1, v2]): a self-loop is pushed twice on one list
UndirectedGraph_addEdge(v1, v2) ==
  /\ graphClass = "UndirectedGraph"
  /\ processor = "none"
  /\ totalEdges < MaxEdges
  /\ LET k1 == JSString(v1)
         k2 == JSString(v2)
         added == WithVertices(adjacencyList, k1, k2)
         first == [added EXCEPT ![k1] = Append(@, JSString(v2))]
     IN  /\ adjacencyList' = [first EXCEPT ![k2] = Append(@, JSString(v1))]
         /\ totalVertices' = totalVertices + Cardinality(DOMAIN added)
                               - Cardinality(DOMAIN adjacencyList)
  /\ totalEdges' = totalEdges + 1
  /\ lastError' = ""
  /\ returned' = Undefined
  /\ UNCHANGED <<graphClass, processor, cycleVars, sorted, pathVars>>
  /\ UNCHANGED <<reversedGraph, mstVars, componentVars>>
  /\ UNCHANGED structureVars
  /\ UNCHANGED searchVars

(***************************************************************************)
(* UndirectedCycle, eager: processors/graph.unweighted.undirected.cycle.js *)
(***************************************************************************)
RECURSIVE UndirectedCycle_depthFirstSearch(_, _, _, _)
RECURSIVE UndirectedCycle_forOf(_, _, _, _, _)

\* depthFirstSearch counting the edge back to the parentVertex as a cycle
UndirectedCycle_forOf_NoParent(adj, parentVertex, vertex, i, visitedSet) ==
  IF i > Len(adj[vertex])
  THEN [ret |-> FALSE, threw |-> FALSE, visited |-> visitedSet]
  ELSE LET adjacentVertex == adj[vertex][i] IN
       IF adjacentVertex \in visitedSet
       THEN [ret |-> TRUE, threw |-> FALSE, visited |-> visitedSet]
       ELSE LET r == UndirectedCycle_depthFirstSearch(
                       adj, vertex, adjacentVertex,
                       visitedSet \cup {adjacentVertex})
            IN  IF r.threw \/ r.ret
                THEN r
                ELSE UndirectedCycle_forOf(adj, parentVertex, vertex, i + 1, r.visited)

\* the for...of loop of depthFirstSearch from the i-th adjacent vertex on
UndirectedCycle_forOf(adj, parentVertex, vertex, i, visitedSet) ==
  IF i > Len(adj[vertex])
  THEN [ret |-> FALSE, threw |-> FALSE, visited |-> visitedSet]
  ELSE LET adjacentVertex == adj[vertex][i] IN
       IF adjacentVertex \in visitedSet
       THEN IF adjacentVertex = parentVertex
            THEN UndirectedCycle_forOf(adj, parentVertex, vertex, i + 1, visitedSet)
            ELSE [ret |-> TRUE, threw |-> FALSE, visited |-> visitedSet]
       ELSE LET r == UndirectedCycle_depthFirstSearch(
                       adj, vertex, adjacentVertex,
                       visitedSet \cup {adjacentVertex})
            IN  IF r.threw \/ r.ret
                THEN r
                ELSE UndirectedCycle_forOf(adj, parentVertex, vertex, i + 1, r.visited)

UndirectedCycle_depthFirstSearch(adj, parentVertex, vertex, visitedSet) ==
  IF vertex \notin DOMAIN adj
  THEN [ret |-> FALSE, threw |-> TRUE, visited |-> visitedSet]
  ELSE UndirectedCycle_forOf(adj, parentVertex, vertex, 1, visitedSet)

\* the inner loop of hasParallelEdges over one adjacency list
RECURSIVE UndirectedCycle_hasDuplicate(_, _, _)
UndirectedCycle_hasDuplicate(adjacentVertices, i, visitedSet) ==
  IF i > Len(adjacentVertices) THEN FALSE
  ELSE IF adjacentVertices[i] \in visitedSet THEN TRUE
  ELSE UndirectedCycle_hasDuplicate(adjacentVertices, i + 1,
                                    visitedSet \cup {adjacentVertices[i]})

\* hasParallelEdges(graph)
UndirectedCycle_hasParallelEdges(adj) ==
  \E vertex \in DOMAIN adj : UndirectedCycle_hasDuplicate(adj[vertex], 1, {})

\* hasSelfLoop(graph)
UndirectedCycle_hasSelfLoop(adj) ==
  \E vertex \in DOMAIN adj :
    \E i \in 1..Len(adj[vertex]) : vertex = adj[vertex][i]

\* the for...in loop of hasCycle(graph) from the i-th key on
RECURSIVE UndirectedCycle_forIn(_, _, _, _)
UndirectedCycle_forIn(adj, keys, i, visitedSet) ==
  IF i > Len(keys) THEN [ret |-> FALSE, threw |-> FALSE]
  ELSE LET vertex == keys[i] IN
       IF vertex \in visitedSet
       THEN UndirectedCycle_forIn(adj, keys, i + 1, visitedSet)
       ELSE LET r == UndirectedCycle_depthFirstSearch(
                       adj, "null", vertex, visitedSet \cup {vertex})
            IN  IF r.threw \/ r.ret
                THEN [ret |-> r.ret, threw |-> r.threw]
                ELSE UndirectedCycle_forIn(adj, keys, i + 1, r.visited)

\* hasCycle(graph)
UndirectedCycle_hasCycle(adj) ==
  IF UndirectedCycle_hasSelfLoop(adj) \/ UndirectedCycle_hasParallelEdges(adj)
  THEN [ret |-> TRUE, threw |-> FALSE]
  ELSE UndirectedCycle_forIn(adj, ForIn(adj), 1, {})

\* new UndirectedCycle(graph)
UndirectedCycle_constructor ==
  /\ graphClass = "UndirectedGraph"
  /\ processor = "none"
  /\ LET r == UndirectedCycle_hasCycle(adjacencyList) IN
       IF r.threw
       THEN /\ lastError' = "The input vertex is not in the graph"
            /\ UNCHANGED <<processor, checkCycle>>
       ELSE /\ processor' = "UndirectedCycle"
            /\ checkCycle' = r.ret
            /\ lastError' = ""
  /\ returned' = Undefined
  /\ UNCHANGED <<graphVars, initialized, hasCycle, sorted, pathVars>>
  /\ UNCHANGED <<reversedGraph, mstVars, componentVars>>
  /\ UNCHANGED structureVars
  /\ UNCHANGED searchVars

(***************************************************************************)
(* ConnectedComponents, eager:                                             *)
(* processors/graph.unweighted.undirected.connected-components.js          *)
(***************************************************************************)
RECURSIVE ConnectedComponents_forEach(_, _, _, _, _)
RECURSIVE ConnectedComponents_depthFirstSearch(_, _, _, _, _)

\* the forEach that does not search from the adjacent vertices
ConnectedComponents_forEach_Shallow(count, adj, vertex, i, st) == st

\* the forEach of depthFirstSearch over the adjacency list of vertex, from
\* the i-th entry on; st holds id and visited
ConnectedComponents_forEach(count, adj, vertex, i, st) ==
  IF i > Len(adj[vertex]) \/ st.threw THEN st
  ELSE LET adjacentVertex == adj[vertex][i] IN
         IF adjacentVertex \in st.visited
         THEN ConnectedComponents_forEach(count, adj, vertex, i + 1, st)
         ELSE ConnectedComponents_forEach(
                count, adj, vertex, i + 1,
                ConnectedComponents_depthFirstSearch(
                  count, adj, st.id, adjacentVertex, st.visited))

\* depthFirstSearch(componentCount, graph, id, vertex, visited)
ConnectedComponents_depthFirstSearch(count, adj, ids, vertex, visitedSet) ==
  IF vertex \notin DOMAIN adj
  THEN [threw |-> TRUE, id |-> ids, visited |-> visitedSet]
  ELSE ConnectedComponents_forEach(
         count, adj, vertex, 1,
         [threw |-> FALSE, id |-> Put(ids, vertex, count),
          visited |-> visitedSet \cup {vertex}])

\* the for...in loop of countComponents from the i-th key on
RECURSIVE ConnectedComponents_forIn(_, _, _, _, _)
ConnectedComponents_forIn(adj, keys, i, count, st) ==
  IF i > Len(keys) \/ st.threw
  THEN [threw |-> st.threw, id |-> st.id, componentCount |-> count]
  ELSE IF keys[i] \in st.visited
  THEN ConnectedComponents_forIn(adj, keys, i + 1, count, st)
  ELSE ConnectedComponents_forIn(
         adj, keys, i + 1, count + 1,
         ConnectedComponents_depthFirstSearch(count, adj, st.id, keys[i],
                                              st.visited))

\* countComponents(graph, id)
ConnectedComponents_countComponents(adj) ==
  ConnectedComponents_forIn(
    adj, ForIn(adj), 1, 0,
    [threw |-> FALSE, id |-> EmptyObject, visited |-> {}])

\* new ConnectedComponents(graph)
ConnectedComponents_constructor ==
  /\ graphClass = "UndirectedGraph"
  /\ processor = "none"
  /\ LET r == ConnectedComponents_countComponents(adjacencyList) IN
       IF r.threw
       THEN /\ lastError' = "The input vertex is not in the graph, my friend!"
            /\ UNCHANGED <<processor, componentVars>>
       ELSE /\ processor' = "ConnectedComponents"
            /\ id' = r.id
            /\ componentCount' = r.componentCount
            /\ lastError' = ""
  /\ returned' = Undefined
  /\ UNCHANGED <<graphVars, cycleVars, sorted, pathVars, reversedGraph,
                 mstVars>>
  /\ UNCHANGED structureVars
  /\ UNCHANGED searchVars

\* getComponentCount()
ConnectedComponents_getComponentCount ==
  Returned("number", componentCount, <<>>, FALSE)

\* getComponentId(vertex)
ConnectedComponents_getComponentId(vertex) ==
  IF JSString(vertex) \notin DOMAIN adjacencyList
  THEN Thrown
  ELSE Returned("number", id[JSString(vertex)], <<>>, FALSE)

\* a call of getComponentCount()
ConnectedComponents_getComponentCount_call ==
  /\ processor = "ConnectedComponents"
  /\ returned' = ConnectedComponents_getComponentCount
  /\ lastError' = ""
  /\ UNCHANGED <<graphVars, processor, cycleVars, sorted, sourceVertex,
                 distanceFromSource, parent, visited, minPQ, phase,
                 reversedGraph, mstVars, componentVars>>
  /\ UNCHANGED structureVars
  /\ UNCHANGED searchVars

\* a call of getComponentId(vertex)
ConnectedComponents_getComponentId_call(vertex) ==
  /\ processor = "ConnectedComponents"
  /\ returned' = ConnectedComponents_getComponentId(vertex)
  /\ lastError' = IF returned'.kind = "thrown"
                  THEN "The input vertex is not in the graph, my friend!"
                  ELSE ""
  /\ UNCHANGED <<graphVars, processor, cycleVars, sorted, sourceVertex,
                 distanceFromSource, parent, visited, minPQ, phase,
                 reversedGraph, mstVars, componentVars>>
  /\ UNCHANGED structureVars
  /\ UNCHANGED searchVars

SpecUndirectedNext ==
  \/ \E v \in VertexInputs : UndirectedGraph_addVertex(v)
  \/ \E v1, v2 \in VertexInputs : UndirectedGraph_addEdge(v1, v2)
  \/ UndirectedCycle_constructor
  \/ ConnectedComponents_constructor
  \/ ConnectedComponents_getComponentCount_call
  \/ \E v \in VertexInputs : ConnectedComponents_getComponentId_call(v)

SpecUndirected == InitUndirected /\ [][SpecUndirectedNext]_vars

(***************************************************************************)
(* What an undirected multigraph is                                        *)
(***************************************************************************)
\* number of entries equal to v in the adjacency list of u
Count(adj, u, v) == Cardinality({i \in 1..Len(adj[u]) : adj[u][i] = v})

SelfLoop(adj) == \E v \in DOMAIN adj : Count(adj, v, v) > 0

ParallelEdges(adj) ==
  \E u, v \in DOMAIN adj : u # v /\ Count(adj, u, v) >= 2

\* vertices joined to the frontier by edges other than the edge a - b
RECURSIVE ReachWithout(_, _, _, _)
ReachWithout(adj, a, b, frontier) ==
  LET next == frontier \cup
                {v \in DOMAIN adj :
                   \E u \in frontier :
                     /\ Count(adj, u, v) > 0
                     /\ {u, v} # {a, b}}
  IN  IF next = frontier THEN frontier ELSE ReachWithout(adj, a, b, next)

\* an edge a - b whose ends stay joined without it: a cycle through at
\* least three distinct vertices
LongCycle(adj) ==
  \E a, b \in DOMAIN adj :
    /\ a # b
    /\ Count(adj, a, b) > 0
    /\ b \in ReachWithout(adj, a, b, {a})

\* C6: UndirectedCycle reports a cycle exactly when the multigraph has a
\* self-loop, a pair of parallel edges or a cycle through three or more
\* distinct vertices; a forest of simple edges is never reported
C6_UndirectedCycleExact ==
  processor = "UndirectedCycle"
    => (checkCycle <=> (\/ SelfLoop(adjacencyList)
                        \/ ParallelEdges(adjacencyList)
                        \/ LongCycle(adjacencyList)))

\* a triangle of simple edges is reported
C6_Witness ==
  /\ processor = "UndirectedCycle"
  /\ checkCycle = TRUE
  /\ ~SelfLoop(adjacencyList)
  /\ ~ParallelEdges(adjacencyList)
  /\ LongCycle(adjacencyList)

(***************************************************************************)
(* JavaScript numbers: the integers and Infinity                           *)
(***************************************************************************)
Num(n) == [kind |-> "number", value |-> n]
Infinity == [kind |-> "Infinity", value |-> 0]

\* a + w for a number a and a finite weight w
JSAdd(a, w) == IF a.kind = "Infinity" THEN Infinity ELSE Num(a.value + w)

\* a >= b
JSGreaterOrEqual(a, b) ==
  IF a.kind = "Infinity" THEN TRUE
  ELSE IF b.kind = "Infinity" THEN FALSE
  ELSE a.value >= b.value

\* weights an edge is given: without and with a negative weight
NonNegativeWeights == {0, 1}
SignedWeights == {-1, 0}

\* vertices a caller names on an edge-weighted graph
WeightedVertexInputs ==
  [type : {"number"}, value : {0, 1, 2}]
    \cup [type : {"string"}, value : {"0", "1", "2"}]

(***************************************************************************)
(* Edge-weighted graphs: structures/graph.edge-weighted.directed.js and    *)
(* structures/graph.edge-weighted.undirected.js                            *)
(***************************************************************************)
\* new Edge([v1, v2, weight]) of the directed graph, with from() and to()
DirectedEdge(v1, v2, weight) ==
  [v1 |-> JSString(v1), v2 |-> JSString(v2), weight |-> weight,
   methods |-> {"from", "to"}]

\* new Edge([v1, v2, weight]) of the undirected graph, with either() and other()
UndirectedEdge(v1, v2, weight) ==
  [v1 |-> JSString(v1), v2 |-> JSString(v2), weight |-> weight,
   methods |-> {"either", "other"}]

\* the error of calling to() on an Edge without it
TypeError == "TypeError: edge.to is not a function"

\* edge.to() answering on either Edge class
Edge_to_EitherClass(edge) == [threw |-> FALSE, value |-> edge.v2]

\* edge.to(): the method exists on the directed Edge only; calling a missing
\* method throws a TypeError
Edge_to(edge) ==
  IF "to" \in edge.methods
  THEN [threw |-> FALSE, value |-> edge.v2]
  ELSE [threw |-> TRUE, value |-> ""]

\* new EdgeWeightedDirectedGraph() or new EdgeWeightedUndirectedGraph()
InitWeighted(class) ==
  /\ graphClass = class
  /\ adjacencyList = EmptyObject
  /\ totalVertices = 0
  /\ totalEdges = 0
  /\ lastError = ""
  /\ NoProcessorState
  /\ NoStructureState

\* EdgeWeightedDirectedGraph.addVertex(vertex)
EdgeWeightedDirectedGraph_addVertex(v) ==
  /\ graphClass = "EdgeWeightedDirectedGraph"
  /\ processor = "none"
  /\ IF JSString(v) \in DOMAIN adjacencyList
     THEN /\ lastError' = "That node already exists in the graph, my friend!"
          /\ UNCHANGED graphVars
     ELSE /\ adjacencyList' = Put(adjacencyList, JSString(v), <<>>)
          /\ totalVertices' = totalVertices + 1
          /\ lastError' = ""
          /\ UNCHANGED <<graphClass, totalEdges>>
  /\ returned' = Undefined
  /\ UNCHANGED <<processor, cycleVars, sorted, pathVars>>
  /\ UNCHANGED <<reversedGraph, mstVars, componentVars>>
  /\ UNCHANGED structureVars
  /\ UNCHANGED searchVars

\* EdgeWeightedDirectedGraph.addEdge([v1, v2, weight])
EdgeWeightedDirectedGraph_addEdge(v1, v2, weight) ==
  /\ graphClass = "EdgeWeightedDirectedGraph"
  /\ processor = "none"
  /\ totalEdges < MaxWeightedEdges
  /\ LET k1 == JSString(v1)
         k2 == JSString(v2)
         added == WithVertices(adjacencyList, k1, k2)
         edge == DirectedEdge(v1, v2, weight)
     IN  /\ adjacencyList' = [added EXCEPT ![k1] = Append(@, edge)]
         /\ totalVertices' = totalVertices + Cardinality(DOMAIN added)
                               - Cardinality(DOMAIN adjacencyList)
  /\ totalEdges' = totalEdges + 1
  /\ lastError' = ""
  /\ returned' = Undefined
  /\ UNCHANGED <<graphClass, processor, cycleVars, sorted, pathVars>>
  /\ UNCHANGED <<reversedGraph, mstVars, componentVars>>
  /\ UNCHANGED structureVars
  /\ UNCHANGED searchVars

\* EdgeWeightedUndirectedGraph.addVertex(vertex)
EdgeWeightedUndirectedGraph_addVertex(v) ==
  /\ graphClass = "EdgeWeightedUndirectedGraph"
  /\ processor = "none"
  /\ IF JSString(v) \in DOMAIN adjacencyList
     THEN /\ lastError' = "That node already exists in the graph, my friend!"
          /\ UNCHANGED graphVars
     ELSE /\ adjacencyList' = Put(adjacencyList, JSString(v), <<>>)
          /\ totalVertices' = totalVertices + 1
          /\ lastError' = ""
          /\ UNCHANGED <<graphClass, totalEdges>>
  /\ returned' = Undefined
  /\ UNCHANGED <<processor, cycleVars, sorted, pathVars>>
  /\ UNCHANGED <<reversedGraph, mstVars, componentVars>>
  /\ UNCHANGED structureVars
  /\ UNCHANGED searchVars

\* EdgeWeightedUndirectedGraph.addEdge([v1, v2, weight]): the one edge object
\* is pushed on both ends' lists, twice on the same list for a self-loop
EdgeWeightedUndirectedGraph_addEdge(v1, v2, weight) ==
  /\ graphClass = "EdgeWeightedUndirectedGraph"
  /\ processor = "none"
  /\ totalEdges < MaxWeightedEdges
  /\ LET k1 == JSString(v1)
         k2 == JSString(v2)
         added == WithVertices(adjacencyList, k1, k2)
         edge == UndirectedEdge(v1, v2, weight)
         first == [added EXCEPT ![k1] = Append(@, edge)]
     IN  /\ adjacencyList' = [first EXCEPT ![k2] = Append(@, edge)]
         /\ totalVertices' = totalVertices + Cardinality(DOMAIN added)
                               - Cardinality(DOMAIN adjacencyList)
  /\ totalEdges' = totalEdges + 1
  /\ lastError' = ""
  /\ returned' = Undefined
  /\ UNCHANGED <<graphClass, processor, cycleVars, sorted, pathVars>>
  /\ UNCHANGED <<reversedGraph, mstVars, componentVars>>
  /\ UNCHANGED structureVars
  /\ UNCHANGED searchVars

(***************************************************************************)
(* The minimum priority queue ShortestPath requires                        *)
(* ('../structures/queue.priority.min'): insert(priority, value),          *)
(* deleteMin() returning {priority, value}, isEmpty().  Which of several   *)
(* entries of least priority deleteMin returns is left open.               *)
(***************************************************************************)
MinPQ_new == EmptyBag

MinPQ_insert(pq, priority, value) ==
  pq (+) SetToBag({[priority |-> priority, value |-> value]})

MinPQ_isEmpty(pq) == pq = EmptyBag

\* deleteMin() returning any entry of the queue
MinPQ_minima_Any(pq) == BagToSet(pq)

\* the entries deleteMin() may return
MinPQ_minima(pq) ==
  {e \in BagToSet(pq) :
     \A f \in BagToSet(pq) : JSGreaterOrEqual(f.priority, e.priority)}

\* the queue after deleteMin() returned entry e
MinPQ_deleteMin(pq, e) == pq (-) SetToBag({e})

(***************************************************************************)
(* ShortestPath, eager:                                                    *)
(* processors/graph.edge-weighted.directed.shortest-path-dijkstra.js       *)
(***************************************************************************)
\* the forEach taking the weight of the edge alone for the distance
RECURSIVE ShortestPath_forEach_EdgeWeightOnly(_, _, _, _, _, _)
ShortestPath_forEach_EdgeWeightOnly(edges, i, minVertex, distances, parents, pq) ==
  IF i > Len(edges)
  THEN [threw |-> FALSE, distanceFromSource |-> distances,
        parent |-> parents, minPQ |-> pq]
  ELSE LET edge == edges[i]
           distance == Num(edge.weight)
           to == Edge_to(edge)
           adjacentVertex == to.value
       IN  IF to.threw
           THEN [threw |-> TRUE, distanceFromSource |-> distances,
                 parent |-> parents, minPQ |-> pq]
           ELSE IF JSGreaterOrEqual(distance, distances[adjacentVertex])
           THEN ShortestPath_forEach_EdgeWeightOnly(edges, i + 1, minVertex, distances, parents, pq)
           ELSE ShortestPath_forEach_EdgeWeightOnly(
                  edges, i + 1, minVertex,
                  Put(distances, adjacentVertex, distance),
                  Put(parents, adjacentVertex, minVertex),
                  MinPQ_insert(pq, distance, adjacentVertex))

\* the forEach updating on an equal distance too (> for >=)
RECURSIVE ShortestPath_forEach_EqualUpdates(_, _, _, _, _, _)
ShortestPath_forEach_EqualUpdates(edges, i, minVertex, distances, parents, pq) ==
  IF i > Len(edges)
  THEN [threw |-> FALSE, distanceFromSource |-> distances,
        parent |-> parents, minPQ |-> pq]
  ELSE LET edge == edges[i]
           distance == JSAdd(distances[minVertex], edge.weight)
           to == Edge_to(edge)
           adjacentVertex == to.value
       IN  IF to.threw
           THEN [threw |-> TRUE, distanceFromSource |-> distances,
                 parent |-> parents, minPQ |-> pq]
           ELSE IF ~JSGreaterOrEqual(distances[adjacentVertex], distance)
           THEN ShortestPath_forEach_EqualUpdates(edges, i + 1, minVertex, distances, parents, pq)
           ELSE ShortestPath_forEach_EqualUpdates(
                  edges, i + 1, minVertex,
                  Put(distances, adjacentVertex, distance),
                  Put(parents, adjacentVertex, minVertex),
                  MinPQ_insert(pq, distance, adjacentVertex))

\* the forEach of initializeDijkstra over the edges of minVertex, from the
\* i-th edge on; distances, parents and pq are the objects it mutates
RECURSIVE ShortestPath_forEach(_, _, _, _, _, _)
ShortestPath_forEach(edges, i, minVertex, distances, parents, pq) ==
  IF i > Len(edges)
  THEN [threw |-> FALSE, distanceFromSource |-> distances,
        parent |-> parents, minPQ |-> pq]
  ELSE LET edge == edges[i]
           distance == JSAdd(distances[minVertex], edge.weight)
           to == Edge_to(edge)
           adjacentVertex == to.value
       IN  IF to.threw
           THEN [threw |-> TRUE, distanceFromSource |-> distances,
                 parent |-> parents, minPQ |-> pq]
           ELSE IF JSGreaterOrEqual(distance, distances[adjacentVertex])
           THEN ShortestPath_forEach(edges, i + 1, minVertex,
                                     distances, parents, pq)
           ELSE ShortestPath_forEach(
                  edges, i + 1, minVertex,
                  Put(distances, adjacentVertex, distance),
                  Put(parents, adjacentVertex, minVertex),
                  MinPQ_insert(pq, distance, adjacentVertex))

\* new ShortestPath(graph, sourceVertex) up to the while loop of
\* initializeDijkstra
ShortestPath_constructor(source) ==
  /\ graphClass \in {"EdgeWeightedDirectedGraph", "EdgeWeightedUndirectedGraph"}
  /\ processor = "none"
  /\ processor' = "ShortestPath"
  /\ sourceVertex' = JSString(source)
  /\ parent' = EmptyObject
  /\ visited' = {}
  /\ IF JSString(source) \notin DOMAIN adjacencyList
     THEN /\ lastError' = "This source vertex is not in the graph, my friend!"
          /\ phase' = "threw"
          /\ distanceFromSource' = EmptyObject
          /\ minPQ' = MinPQ_new
     ELSE /\ lastError' = ""
          /\ phase' = "loop"
          /\ distanceFromSource' =
               [vertex \in DOMAIN adjacencyList |->
                  IF vertex = JSString(source) THEN Num(0) ELSE Infinity]
          /\ minPQ' = MinPQ_insert(MinPQ_new, Num(0), JSString(source))
  /\ returned' = Undefined
  /\ UNCHANGED <<graphVars, cycleVars, sorted>>
  /\ UNCHANGED <<reversedGraph, mstVars, componentVars>>
  /\ UNCHANGED structureVars
  /\ UNCHANGED searchVars

\* the loop body without visited.add(minVertex)
ShortestPath_while_NeverVisited ==
  /\ processor = "ShortestPath"
  /\ phase = "loop"
  /\ IF MinPQ_isEmpty(minPQ)
     THEN /\ phase' = "done"
          /\ UNCHANGED <<distanceFromSource, parent, visited, minPQ, lastError>>
     ELSE \E min \in MinPQ_minima(minPQ) :
            LET minVertex == min.value
                rest == MinPQ_deleteMin(minPQ, min)
                r == ShortestPath_forEach(adjacencyList[minVertex], 1, minVertex,
                                          distanceFromSource, parent, rest)
            IN  IF minVertex \in visited
                THEN /\ minPQ' = rest
                     /\ UNCHANGED <<distanceFromSource, parent, visited,
                                    phase, lastError>>
                ELSE /\ visited' = visited
                     /\ distanceFromSource' = r.distanceFromSource
                     /\ parent' = r.parent
                     /\ minPQ' = r.minPQ
                     /\ phase' = IF r.threw THEN "threw" ELSE "loop"
                     /\ lastError' = IF r.threw THEN TypeError ELSE ""
  /\ returned' = Undefined
  /\ UNCHANGED <<graphVars, processor, cycleVars, sorted, sourceVertex>>
  /\ UNCHANGED <<reversedGraph, mstVars, componentVars>>
  /\ UNCHANGED structureVars
  /\ UNCHANGED searchVars

\* one test of the while condition of initializeDijkstra (and of dijkstra in
\* ShortestPath.js, which has the same loop) and, if the queue is not empty,
\* one run of the loop body
ShortestPath_while ==
  /\ processor \in {"ShortestPath", "ShortestPathExplicit"}
  /\ phase = "loop"
  /\ IF MinPQ_isEmpty(minPQ)
     THEN /\ phase' = "done"
          /\ UNCHANGED <<distanceFromSource, parent, visited, minPQ, lastError>>
     ELSE \E min \in MinPQ_minima(minPQ) :
            LET minVertex == min.value
                rest == MinPQ_deleteMin(minPQ, min)
                r == ShortestPath_forEach(adjacencyList[minVertex], 1, minVertex,
                                          distanceFromSource, parent, rest)
            IN  IF minVertex \in visited
                THEN /\ minPQ' = rest
                     /\ UNCHANGED <<distanceFromSource, parent, visited,
                                    phase, lastError>>
                ELSE /\ visited' = visited \cup {minVertex}
                     /\ distanceFromSource' = r.distanceFromSource
                     /\ parent' = r.parent
                     /\ minPQ' = r.minPQ
                     /\ phase' = IF r.threw THEN "threw" ELSE "loop"
                     /\ lastError' = IF r.threw THEN TypeError ELSE ""
  /\ returned' = Undefined
  /\ UNCHANGED <<graphVars, processor, cycleVars, sorted, sourceVertex>>
  /\ UNCHANGED <<reversedGraph, mstVars, componentVars>>
  /\ UNCHANGED structureVars
  /\ UNCHANGED searchVars

\* hasPathTo(vertex)
ShortestPath_hasPathTo(vertex) ==
  IF JSString(vertex) \notin DOMAIN adjacencyList
  THEN Thrown
  ELSE Returned("boolean", 0, <<>>, JSString(vertex) \in visited)

\* distanceTo(vertex)
ShortestPath_distanceTo(vertex) ==
  LET has == ShortestPath_hasPathTo(vertex) IN
    IF has.kind = "thrown" THEN Thrown
    ELSE IF ~has.boolean THEN Null
    ELSE LET d == distanceFromSource[JSString(vertex)] IN
           Returned(d.kind, d.value, <<>>, FALSE)

\* the for loop of shortestPathTo with the source left off the path
RECURSIVE ShortestPath_forLoop_WithoutSource(_, _)
ShortestPath_forLoop_WithoutSource(vertex, path) ==
  IF vertex = sourceVertex
  THEN Returned("array", 0, path, FALSE)
  ELSE IF vertex \notin DOMAIN parent
            \/ \E i \in 1..Len(path) : path[i] = vertex
  THEN Never
  ELSE ShortestPath_forLoop_WithoutSource(parent[vertex], Append(path, vertex))

\* the for loop of shortestPathTo from the given vertex on; the loop never
\* ends once it meets a vertex again, or a vertex without a parent entry
\* (then every later vertex is undefined)
RECURSIVE ShortestPath_forLoop(_, _)
ShortestPath_forLoop(vertex, path) ==
  IF vertex = sourceVertex
  THEN Returned("array", 0, Append(path, sourceVertex), FALSE)
  ELSE IF vertex \notin DOMAIN parent
            \/ \E i \in 1..Len(path) : path[i] = vertex
  THEN Never
  ELSE ShortestPath_forLoop(parent[vertex], Append(path, vertex))

\* shortestPathTo(destinationVertex)
ShortestPath_shortestPathTo(destinationVertex) ==
  LET has == ShortestPath_hasPathTo(destinationVertex) IN
    IF has.kind = "thrown" THEN Thrown
    ELSE IF ~has.boolean THEN Null
    ELSE ShortestPath_forLoop(JSString(destinationVertex), <<>>)

\* a query on the processed ShortestPath
ShortestPath_query(method, vertex) ==
  /\ processor = "ShortestPath"
  /\ phase = "done"
  /\ returned' = CASE method = "hasPathTo" -> ShortestPath_hasPathTo(vertex)
                   [] method = "distanceTo" -> ShortestPath_distanceTo(vertex)
                   [] method = "shortestPathTo" ->
                        ShortestPath_shortestPathTo(vertex)
  /\ lastError' = IF returned'.kind = "thrown"
                  THEN "The input vertex is not in the graph, my friend!"
                  ELSE ""
  /\ UNCHANGED <<graphVars, processor, cycleVars, sorted, sourceVertex,
                 distanceFromSource, parent, visited, minPQ, phase>>
  /\ UNCHANGED <<reversedGraph, mstVars, componentVars>>
  /\ UNCHANGED structureVars
  /\ UNCHANGED searchVars

ShortestPath_hasPathTo_call(vertex) == ShortestPath_query("hasPathTo", vertex)
ShortestPath_distanceTo_call(vertex) == ShortestPath_query("distanceTo", vertex)
ShortestPath_shortestPathTo_call(vertex) ==
  ShortestPath_query("shortestPathTo", vertex)

ShortestPathNext(weights) ==
  \/ \E v \in WeightedVertexInputs : EdgeWeightedDirectedGraph_addVertex(v)
  \/ \E v1, v2 \in WeightedVertexInputs, w \in weights :
       EdgeWeightedDirectedGraph_addEdge(v1, v2, w)
  \/ \E v \in WeightedVertexInputs : ShortestPath_constructor(v)
  \/ ShortestPath_while
  \/ \E v \in WeightedVertexInputs : ShortestPath_hasPathTo_call(v)
  \/ \E v \in WeightedVertexInputs : ShortestPath_distanceTo_call(v)
  \/ \E v \in WeightedVertexInputs : ShortestPath_shortestPathTo_call(v)

\* ShortestPath on directed graphs without negative weights
SpecShortestPath ==
  InitWeighted("EdgeWeightedDirectedGraph")
    /\ [][ShortestPathNext(NonNegativeWeights)]_vars

\* ShortestPath on directed graphs with negative weights
SpecShortestPathSigned ==
  InitWeighted("EdgeWeightedDirectedGraph")
    /\ [][ShortestPathNext(SignedWeights)]_vars

SpecShortestPathUndirectedNext ==
  \/ \E v \in WeightedVertexInputs : EdgeWeightedUndirectedGraph_addVertex(v)
  \/ \E v1, v2 \in WeightedVertexInputs, w \in NonNegativeWeights :
       EdgeWeightedUndirectedGraph_addEdge(v1, v2, w)
  \/ \E v \in WeightedVertexInputs : ShortestPath_constructor(v)
  \/ ShortestPath_while
  \/ \E v \in WeightedVertexInputs : ShortestPath_hasPathTo_call(v)
  \/ \E v \in WeightedVertexInputs : ShortestPath_distanceTo_call(v)
  \/ \E v \in WeightedVertexInputs : ShortestPath_shortestPathTo_call(v)

\* ShortestPath on undirected graphs
SpecShortestPathUndirected ==
  InitWeighted("EdgeWeightedUndirectedGraph")
    /\ [][SpecShortestPathUndirectedNext]_vars

(***************************************************************************)
(* What the paths of a weighted graph are, apart from the processors       *)
(***************************************************************************)
\* the end of edge e that is not u; an edge of the directed graph lies in the
\* list of its v1 only, so from there this is its head
Other(e, u) == IF e.v1 = u THEN e.v2 ELSE e.v1

\* the total weights of the walks from u to v of at most n edges
RECURSIVE WalkWeights(_, _, _, _)
WalkWeights(adj, u, v, n) ==
  (IF u = v THEN {0} ELSE {})
    \cup (IF n = 0 THEN {}
          ELSE UNION {{adj[u][i].weight + w :
                         w \in WalkWeights(adj, Other(adj[u][i], u), v, n - 1)} :
                      i \in 1..Len(adj[u])})

Minimum(S) == CHOOSE x \in S : \A y \in S : x <= y

\* what distanceTo(v) has to return for the source s: the least total weight
\* of a path from s to v, null without a path
TrueDistance(adj, s, v) ==
  LET weights == WalkWeights(adj, s, v, Cardinality(DOMAIN adj)) IN
    IF weights = {} THEN Null
    ELSE Returned("number", Minimum(weights), <<>>, FALSE)

\* the weights of the edges from u to v
EdgeWeights(adj, u, v) ==
  {adj[u][i].weight : i \in {j \in 1..Len(adj[u]) : Other(adj[u][j], u) = v}}

\* the sums of weights of edges path[j+1] -> path[j], one for each j >= i
RECURSIVE PathSums(_, _, _)
PathSums(adj, path, i) ==
  IF i >= Len(path) THEN {0}
  ELSE {w + rest : w \in EdgeWeights(adj, path[i + 1], path[i]),
                   rest \in PathSums(adj, path, i + 1)}

\* some cycle of the graph has a negative total weight
HasNegativeCycle(adj) ==
  \E u \in DOMAIN adj : \E i \in 1..Len(adj[u]) :
    \E w \in WalkWeights(adj, Other(adj[u][i], u), u, Cardinality(DOMAIN adj)) :
      adj[u][i].weight + w < 0

NonNegative(adj) ==
  \A u \in DOMAIN adj : \A i \in 1..Len(adj[u]) : adj[u][i].weight >= 0

\* ShortestPath has processed the graph for a source in it
Processed == processor = "ShortestPath" /\ phase = "done"

\* the inputs that name a vertex of the graph
GraphVertexInputs ==
  {v \in WeightedVertexInputs : JSString(v) \in DOMAIN adjacencyList}

(***************************************************************************)
(* C7: on a directed graph with non-negative weights, once ShortestPath    *)
(* has processed, distanceTo(v) is the least total weight of a path from   *)
(* the source to v (0 for the source) and null exactly when there is none. *)
(***************************************************************************)
C7_DistanceIsMinimum ==
  (Processed /\ NonNegative(adjacencyList)) =>
    \A v \in GraphVertexInputs :
      ShortestPath_distanceTo(v)
        = TrueDistance(adjacencyList, sourceVertex, JSString(v))

\* distanceTo returned a distance that a later edge improved on the direct
\* edge from the source, in a graph with an unreachable vertex or not
C7_Witness ==
  /\ Processed
  /\ returned.kind = "number"
  /\ \E v \in DOMAIN parent :
       /\ parent[v] # sourceVertex
       /\ \E w \in EdgeWeights(adjacencyList, sourceVertex, v) :
            w > distanceFromSource[v].value

(***************************************************************************)
(* C8: for every reachable v, shortestPathTo(v) starts at v, ends at the   *)
(* source, each consecutive pair (x, y) is joined by an edge y -> x, and   *)
(* weights of such edges sum to distanceTo(v).                             *)
(***************************************************************************)
C8_PathIsShortest ==
  (Processed /\ NonNegative(adjacencyList)) =>
    \A v \in GraphVertexInputs :
      TrueDistance(adjacencyList, sourceVertex, JSString(v)) # Null =>
        LET r == ShortestPath_shortestPathTo(v)
            path == r.array
        IN  /\ r.kind = "array"
            /\ path # <<>>
            /\ path[1] = JSString(v)
            /\ path[Len(path)] = sourceVertex
            /\ \A i \in 1..(Len(path) - 1) :
                 EdgeWeights(adjacencyList, path[i + 1], path[i]) # {}
            /\ ShortestPath_distanceTo(v).number
                 \in PathSums(adjacencyList, path, 1)

\* shortestPathTo returned a path of two edges
C8_Witness ==
  /\ Processed
  /\ returned.kind = "array"
  /\ Len(returned.array) = 3

(***************************************************************************)
(* C9 as stated: on an edge-weighted undirected graph with the source in   *)
(* it, ShortestPath completes and distanceTo(v) is the least total weight  *)
(* of an undirected path from the source to v.                             *)
(***************************************************************************)
C9_UndirectedReuse ==
  (/\ graphClass = "EdgeWeightedUndirectedGraph"
   /\ processor = "ShortestPath"
   /\ sourceVertex \in DOMAIN adjacencyList) =>
    /\ phase # "threw"
    /\ phase = "done" =>
         \A v \in GraphVertexInputs :
           ShortestPath_distanceTo(v)
             = TrueDistance(adjacencyList, sourceVertex, JSString(v))

(***************************************************************************)
(* C9: on an edge-weighted undirected graph with the source in it,         *)
(* ShortestPath fails with a TypeError at the first edge of the source,    *)
(* whose Edge has no to(); it completes only for a source without edges,   *)
(* and then no vertex but the source has a path or a distance.             *)
(***************************************************************************)
C9_UndirectedFails ==
  (/\ graphClass = "EdgeWeightedUndirectedGraph"
   /\ processor = "ShortestPath"
   /\ sourceVertex \in DOMAIN adjacencyList) =>
    /\ phase = "threw" =>
         /\ adjacencyList[sourceVertex] # <<>>
         /\ lastError = TypeError
         /\ visited = {sourceVertex}
    /\ phase = "done" =>
         /\ adjacencyList[sourceVertex] = <<>>
         /\ \A v \in GraphVertexInputs :
              ShortestPath_distanceTo(v)
                = IF JSString(v) = sourceVertex
                  THEN Returned("number", 0, <<>>, FALSE)
                  ELSE Null

\* the constructor threw the TypeError on a graph of two edges or more
C9_Witness ==
  /\ graphClass = "EdgeWeightedUndirectedGraph"
  /\ processor = "ShortestPath"
  /\ phase = "threw"
  /\ lastError = TypeError
  /\ totalEdges >= 2

(***************************************************************************)
(* The steps the while loop of initializeDijkstra has left at most: the    *)
(* entries of the queue, the edges of the vertices not visited yet, and    *)
(* the last test of the loop condition.                                    *)
(***************************************************************************)
RECURSIVE EdgesOf(_, _)
EdgesOf(adj, keys) ==
  IF keys = {} THEN 0
  ELSE LET k == CHOOSE x \in keys : TRUE
       IN  Len(adj[k]) + EdgesOf(adj, keys \ {k})

StepsLeft ==
  IF phase # "loop" THEN 0
  ELSE 1 + BagCardinality(minPQ)
         + EdgesOf(adjacencyList, DOMAIN adjacencyList \ visited)

\* every call of distanceTo and shortestPathTo on a vertex of the graph
\* returns a number, a path or null
QueriesReturn ==
  \A v \in GraphVertexInputs :
    /\ ShortestPath_distanceTo(v).kind \in {"number", "null"}
    /\ ShortestPath_shortestPathTo(v).kind \in {"array", "null"}

(***************************************************************************)
(* C10 as stated: with negative weights, once ShortestPath has processed,  *)
(* every call of distanceTo(v) and shortestPathTo(v) on a vertex of the    *)
(* graph terminates and returns a number, a finite path or null.           *)
(***************************************************************************)
C10_QueriesAlwaysReturn == Processed => QueriesReturn

(***************************************************************************)
(* C10: with negative weights ShortestPath raises no error for a source    *)
(* of the graph and every step of its loop leaves fewer steps to do, so    *)
(* processing completes; afterwards distanceTo(v) returns a number or      *)
(* null, and shortestPathTo(v) returns a path or null unless the graph     *)
(* has a cycle of negative total weight.                                   *)
(***************************************************************************)
C10_SignedWeights ==
  /\ [](processor = "ShortestPath" /\ sourceVertex \in DOMAIN adjacencyList =>
          /\ phase # "threw"
          /\ phase = "done" =>
               /\ \A v \in GraphVertexInputs :
                    ShortestPath_distanceTo(v).kind \in {"number", "null"}
               /\ ~HasNegativeCycle(adjacencyList) => QueriesReturn)
  /\ [][phase = "loop" => StepsLeft' < StepsLeft]_vars

\* shortestPathTo returned a path over an edge of negative weight
C10_Witness ==
  /\ Processed
  /\ returned.kind = "array"
  /\ Len(returned.array) = 3
  /\ \E i \in 1..2 :
       \E w \in EdgeWeights(adjacencyList, returned.array[i + 1],
                            returned.array[i]) : w < 0

(***************************************************************************)
(* MinimumSpanningTree:                                                    *)
(* processors/graph.edge-weighted.undirected.minimum-spanning-tree-prim.js *)
(***************************************************************************)
\* the error deleteMin() raises on an empty queue
EmptyQueueError == "EmptyQueueError"

\* edge.other(vertex): the undirected Edge has the method, and it throws for
\* a vertex that is neither end
Edge_other(edge, vertex) ==
  IF "other" \notin edge.methods \/ (edge.v1 # vertex /\ edge.v2 # vertex)
  THEN [threw |-> TRUE, value |-> ""]
  ELSE [threw |-> FALSE,
        value |-> IF vertex = edge.v1 THEN edge.v2 ELSE edge.v1]

\* the forEach of visit with every edge inserted at priority 0
RECURSIVE MinimumSpanningTree_forEach_Unweighted(_, _, _, _, _)
MinimumSpanningTree_forEach_Unweighted(edges, i, vertex, vertices, pq) ==
  IF i > Len(edges) THEN [threw |-> FALSE, priorityQueue |-> pq]
  ELSE LET other == Edge_other(edges[i], vertex) IN
         IF other.threw THEN [threw |-> TRUE, priorityQueue |-> pq]
         ELSE IF other.value \in vertices
         THEN MinimumSpanningTree_forEach_Unweighted(edges, i + 1, vertex,
                                                     vertices, pq)
         ELSE MinimumSpanningTree_forEach_Unweighted(
                edges, i + 1, vertex, vertices,
                MinPQ_insert(pq, Num(0), edges[i]))

\* the forEach of visit over the edges of vertex, from the i-th edge on
RECURSIVE MinimumSpanningTree_forEach(_, _, _, _, _)
MinimumSpanningTree_forEach(edges, i, vertex, vertices, pq) ==
  IF i > Len(edges) THEN [threw |-> FALSE, priorityQueue |-> pq]
  ELSE LET other == Edge_other(edges[i], vertex) IN
         IF other.threw THEN [threw |-> TRUE, priorityQueue |-> pq]
         ELSE IF other.value \in vertices
         THEN MinimumSpanningTree_forEach(edges, i + 1, vertex, vertices, pq)
         ELSE MinimumSpanningTree_forEach(
                edges, i + 1, vertex, vertices,
                MinPQ_insert(pq, Num(edges[i].weight), edges[i]))

\* visit that inserts no edge
MinimumSpanningTree_visit_NoEdges(adj, vertex, vertices, pq) ==
  [threw |-> vertex \notin DOMAIN adj,
   MSTvertices |-> IF vertex \in DOMAIN adj THEN vertices \cup {vertex}
                   ELSE vertices,
   priorityQueue |-> pq]

\* visit(vertex, graph, MSTvertices, priorityQueue)
MinimumSpanningTree_visit(adj, vertex, vertices, pq) ==
  IF vertex \notin DOMAIN adj
  THEN [threw |-> TRUE, MSTvertices |-> vertices, priorityQueue |-> pq]
  ELSE LET r == MinimumSpanningTree_forEach(adj[vertex], 1, vertex,
                                            vertices \cup {vertex}, pq)
       IN  [threw |-> r.threw, MSTvertices |-> vertices \cup {vertex},
            priorityQueue |-> r.priorityQueue]

\* new MinimumSpanningTree(graph) up to the while loop of initializeMST
MinimumSpanningTree_constructor ==
  /\ graphClass = "EdgeWeightedUndirectedGraph"
  /\ processor = "none"
  /\ processor' = "MinimumSpanningTree"
  /\ MSTedges' = {}
  /\ IF ForIn(adjacencyList) = <<>>
     THEN /\ lastError' = "Your graph is empty"
          /\ phase' = "threw"
          /\ MSTvertices' = {}
          /\ priorityQueue' = MinPQ_new
     ELSE LET source == ForIn(adjacencyList)[1]
              r == MinimumSpanningTree_visit(adjacencyList, source, {},
                                             MinPQ_new)
          IN  /\ MSTvertices' = r.MSTvertices
              /\ priorityQueue' = r.priorityQueue
              /\ phase' = IF r.threw THEN "threw" ELSE "loop"
              /\ lastError' = IF r.threw
                              THEN "That vertex does not exist in the graph"
                              ELSE ""
  /\ returned' = Undefined
  /\ UNCHANGED <<graphVars, cycleVars, sorted, sourceVertex,
                 distanceFromSource, parent, visited, minPQ,
                 reversedGraph, componentVars>>
  /\ UNCHANGED structureVars
  /\ UNCHANGED searchVars

\* one test of the while condition of initializeMST and, if it holds, one
\* run of the loop body
MinimumSpanningTree_while ==
  /\ processor = "MinimumSpanningTree"
  /\ phase = "loop"
  /\ IF ~(Cardinality(MSTvertices) < totalVertices)
     THEN /\ phase' = "done"
          /\ UNCHANGED <<mstVars, lastError>>
     ELSE IF MinPQ_isEmpty(priorityQueue)
     THEN /\ phase' = "threw"
          /\ lastError' = EmptyQueueError
          /\ UNCHANGED mstVars
     ELSE \E min \in MinPQ_minima(priorityQueue) :
            LET edge == min.value
                rest == MinPQ_deleteMin(priorityQueue, min)
                r == MinimumSpanningTree_visit(
                       adjacencyList,
                       IF edge.v1 \notin MSTvertices THEN edge.v1 ELSE edge.v2,
                       MSTvertices, rest)
            IN  IF edge.v1 \in MSTvertices /\ edge.v2 \in MSTvertices
                THEN /\ priorityQueue' = rest
                     /\ UNCHANGED <<MSTvertices, MSTedges, phase, lastError>>
                ELSE /\ MSTedges' = MSTedges \cup {edge}
                     /\ MSTvertices' = r.MSTvertices
                     /\ priorityQueue' = r.priorityQueue
                     /\ phase' = IF r.threw THEN "threw" ELSE "loop"
                     /\ lastError' =
                          IF r.threw
                          THEN "That vertex does not exist in the graph"
                          ELSE ""
  /\ returned' = Undefined
  /\ UNCHANGED <<graphVars, processor, cycleVars, sorted, sourceVertex,
                 distanceFromSource, parent, visited, minPQ,
                 reversedGraph, componentVars>>
  /\ UNCHANGED structureVars
  /\ UNCHANGED searchVars

SpecMinimumSpanningTreeNext ==
  \/ \E v \in WeightedVertexInputs : EdgeWeightedUndirectedGraph_addVertex(v)
  \/ \E v1, v2 \in WeightedVertexInputs, w \in NonNegativeWeights :
       EdgeWeightedUndirectedGraph_addEdge(v1, v2, w)
  \/ MinimumSpanningTree_constructor
  \/ MinimumSpanningTree_while

\* MinimumSpanningTree on undirected graphs
SpecMinimumSpanningTree ==
  InitWeighted("EdgeWeightedUndirectedGraph")
    /\ [][SpecMinimumSpanningTreeNext]_vars

(***************************************************************************)
(* What the spanning trees of a weighted undirected graph are              *)
(***************************************************************************)
AllEdges(adj) ==
  UNION {{adj[u][i] : i \in 1..Len(adj[u])} : u \in DOMAIN adj}

\* the vertices joined to those of S by the edges of T
RECURSIVE JoinedBy(_, _)
JoinedBy(T, S) ==
  LET next == S \cup UNION {{e.v1, e.v2} :
                              e \in {f \in T : f.v1 \in S \/ f.v2 \in S}}
  IN  IF next = S THEN S ELSE JoinedBy(T, next)

Connected(adj) ==
  \A u \in DOMAIN adj : JoinedBy(AllEdges(adj), {u}) = DOMAIN adj

\* T has one edge less than there are vertices and joins them all, so it
\* has no cycle
IsSpanningTree(adj, T) ==
  /\ T \subseteq AllEdges(adj)
  /\ Cardinality(T) = Cardinality(DOMAIN adj) - 1
  /\ \A u \in DOMAIN adj : JoinedBy(T, {u}) = DOMAIN adj

RECURSIVE TotalWeight(_)
TotalWeight(T) ==
  IF T = {} THEN 0
  ELSE LET e == CHOOSE x \in T : TRUE
       IN  e.weight + TotalWeight(T \ {e})

MSTProcessor == processor = "MinimumSpanningTree"

(***************************************************************************)
(* C11: on a connected weighted undirected graph with a vertex or more,    *)
(* MinimumSpanningTree does not raise, and the set it ends with is a       *)
(* spanning tree (V-1 edges joining all V vertices, hence no cycle) of     *)
(* the least total weight among the spanning trees.                        *)
(***************************************************************************)
C11_MinimumSpanningTree ==
  (MSTProcessor /\ DOMAIN adjacencyList # {} /\ Connected(adjacencyList)) =>
    /\ phase # "threw"
    /\ phase = "done" =>
         /\ IsSpanningTree(adjacencyList, MSTedges)
         /\ \A T \in SUBSET AllEdges(adjacencyList) :
              IsSpanningTree(adjacencyList, T) =>
                TotalWeight(MSTedges) <= TotalWeight(T)

\* the tree of a triangle with a parallel edge or self-loop beside it, where
\* an edge of weight 1 was left out
C11_Witness ==
  /\ MSTProcessor
  /\ phase = "done"
  /\ Cardinality(DOMAIN adjacencyList) = 3
  /\ Cardinality(MSTedges) = 2
  /\ \E e \in AllEdges(adjacencyList) \ MSTedges :
       e.v1 # e.v2 /\ e.weight = 1 /\ TotalWeight(MSTedges) = 0

(***************************************************************************)
(* C12 as stated: on a disconnected graph MinimumSpanningTree neither      *)
(* returns nor raises.                                                     *)
(***************************************************************************)
C12_NeverEnds ==
  (MSTProcessor /\ ~Connected(adjacencyList)) => phase = "loop"

\* the steps the while loop of initializeMST has left at most: a step takes
\* an entry off the queue, or takes in a vertex and inserts its edges at most
MSTStepsLeft ==
  IF phase # "loop" THEN 0
  ELSE 1 + BagCardinality(priorityQueue)
         + Cardinality(DOMAIN adjacencyList \ MSTvertices)
             * (2 * totalEdges + 1)

(***************************************************************************)
(* C12: on a disconnected graph MinimumSpanningTree never completes: once  *)
(* the edges of the first vertex's component are used up, deleteMin on the *)
(* empty queue raises, and until then every loop step takes an entry off   *)
(* the queue or takes in a vertex, so the error comes after finitely many  *)
(* steps; the tree built so far spans that component only.                 *)
(***************************************************************************)
C12_DisconnectedRaises ==
  /\ []((MSTProcessor /\ ~Connected(adjacencyList)) =>
          /\ phase # "done"
          /\ phase = "threw" =>
               /\ lastError = EmptyQueueError
               /\ priorityQueue = EmptyBag
               /\ MSTvertices
                    = JoinedBy(AllEdges(adjacencyList),
                               {ForIn(adjacencyList)[1]})
               /\ Cardinality(MSTedges) = Cardinality(MSTvertices) - 1)
  /\ [][(MSTProcessor /\ phase = "loop") => MSTStepsLeft' < MSTStepsLeft]_vars

\* the queue ran empty after an edge was taken into the tree
C12_Witness ==
  /\ MSTProcessor
  /\ ~Connected(adjacencyList)
  /\ phase = "threw"
  /\ lastError = EmptyQueueError
  /\ MSTedges # {}

(***************************************************************************)
(* DepthFirstPaths: processors/graph.unweighted.depth-first-paths.js       *)
(***************************************************************************)
\* edges a graph is given before a path processor is built on it
MaxPathEdges == 3

\* vertices a caller names to a path processor and its graph
PathVertexInputs ==
  [type : {"number"}, value : {0, 1, 2}]
    \cup [type : {"string"}, value : {"0", "1", "2"}]

RECURSIVE DepthFirstPaths_forEach_ParentLast(_, _, _, _, _)
RECURSIVE DepthFirstPaths_forEach(_, _, _, _, _)
RECURSIVE DepthFirstPaths_depthFirstSearch(_, _, _, _)

\* the forEach storing the parent of a vertex already visited too
DepthFirstPaths_forEach_ParentLast(adj, vertex, i, parents, visitedSet) ==
  IF i > Len(adj[vertex])
  THEN [threw |-> FALSE, parent |-> parents, visited |-> visitedSet]
  ELSE LET adjacentVertex == adj[vertex][i] IN
         IF adjacentVertex \in visitedSet
         THEN DepthFirstPaths_forEach_ParentLast(
                adj, vertex, i + 1, Put(parents, adjacentVertex, vertex),
                visitedSet)
         ELSE LET r == DepthFirstPaths_depthFirstSearch(
                         adj, Put(parents, adjacentVertex, vertex),
                         adjacentVertex, visitedSet \cup {adjacentVertex})
              IN  IF r.threw THEN r
                  ELSE DepthFirstPaths_forEach_ParentLast(
                         adj, vertex, i + 1, r.parent, r.visited)

\* the forEach of depthFirstSearch over the adjacency list of vertex, from
\* the i-th entry on
DepthFirstPaths_forEach(adj, vertex, i, parents, visitedSet) ==
  IF i > Len(adj[vertex])
  THEN [threw |-> FALSE, parent |-> parents, visited |-> visitedSet]
  ELSE LET adjacentVertex == adj[vertex][i] IN
         IF adjacentVertex \in visitedSet
         THEN DepthFirstPaths_forEach(adj, vertex, i + 1, parents, visitedSet)
         ELSE LET r == DepthFirstPaths_depthFirstSearch(
                         adj, Put(parents, adjacentVertex, vertex),
                         adjacentVertex, visitedSet \cup {adjacentVertex})
              IN  IF r.threw THEN r
                  ELSE DepthFirstPaths_forEach(adj, vertex, i + 1,
                                               r.parent, r.visited)

\* depthFirstSearch(graph, parent, vertex, visited)
DepthFirstPaths_depthFirstSearch(adj, parents, vertex, visitedSet) ==
  IF vertex \notin DOMAIN adj
  THEN [threw |-> TRUE, parent |-> parents, visited |-> visitedSet]
  ELSE DepthFirstPaths_forEach(adj, vertex, 1, parents, visitedSet)

\* new DepthFirstPaths(graph, sourceVertex): findPaths
DepthFirstPaths_constructor(source) ==
  /\ graphClass \in {"DirectedGraph", "UndirectedGraph"}
  /\ processor = "none"
  /\ processor' = "DepthFirstPaths"
  /\ sourceVertex' = JSString(source)
  /\ distanceFromSource' = EmptyObject
  /\ IF JSString(source) \notin DOMAIN adjacencyList
     THEN /\ lastError' = "The source vertex is not in the graph"
          /\ phase' = "threw"
          /\ parent' = EmptyObject
          /\ visited' = {}
     ELSE LET r == DepthFirstPaths_depthFirstSearch(
                     adjacencyList, EmptyObject, JSString(source),
                     {JSString(source)})
          IN  /\ parent' = r.parent
              /\ visited' = r.visited
              /\ phase' = IF r.threw THEN "threw" ELSE "done"
              /\ lastError' = IF r.threw
                              THEN "The input vertex is not in the graph"
                              ELSE ""
  /\ returned' = Undefined
  /\ UNCHANGED <<graphVars, cycleVars, sorted, minPQ,
                 reversedGraph, mstVars, componentVars>>
  /\ UNCHANGED structureVars
  /\ UNCHANGED searchVars

\* hasPathTo answering from the parent entries
DepthFirstPaths_hasPathTo_ByParent(vertex) ==
  IF JSString(vertex) \notin DOMAIN adjacencyList
  THEN Thrown
  ELSE Returned("boolean", 0, <<>>, JSString(vertex) \in DOMAIN parent)

\* hasPathTo(vertex)
DepthFirstPaths_hasPathTo(vertex) ==
  IF JSString(vertex) \notin DOMAIN adjacencyList
  THEN Thrown
  ELSE Returned("boolean", 0, <<>>, JSString(vertex) \in visited)

\* the for loop of pathTo from the given vertex on; it never ends once it
\* meets a vertex again or a vertex without a parent entry
RECURSIVE DepthFirstPaths_forLoop(_, _)
DepthFirstPaths_forLoop(vertex, path) ==
  IF vertex = sourceVertex
  THEN Returned("array", 0, Append(path, sourceVertex), FALSE)
  ELSE IF vertex \notin DOMAIN parent
            \/ \E i \in 1..Len(path) : path[i] = vertex
  THEN Never
  ELSE DepthFirstPaths_forLoop(parent[vertex], Append(path, vertex))

\* pathTo(destinationVertex)
DepthFirstPaths_pathTo(destinationVertex) ==
  LET has == DepthFirstPaths_hasPathTo(destinationVertex) IN
    IF has.kind = "thrown" THEN Thrown
    ELSE IF ~has.boolean THEN Null
    ELSE DepthFirstPaths_forLoop(JSString(destinationVertex), <<>>)

(***************************************************************************)
(* BreadthFirstPaths: processors/graph.unweighted.breadth-first-paths.js   *)
(***************************************************************************)
\* the inner forEach that gives every vertex the distance of the source's
\* neighbours
RECURSIVE BreadthFirstPaths_forEach_DistanceOne(_, _, _, _, _)
BreadthFirstPaths_forEach_DistanceOne(adj, vertex, i, distance, st) ==
  IF i > Len(adj[vertex]) THEN st
  ELSE LET adjacentVertex == adj[vertex][i] IN
         IF adjacentVertex \in st.visited
         THEN BreadthFirstPaths_forEach_DistanceOne(adj, vertex, i + 1,
                                                    distance, st)
         ELSE BreadthFirstPaths_forEach_DistanceOne(
                adj, vertex, i + 1, distance,
                [nextQueue |-> Append(st.nextQueue, adjacentVertex),
                 visited |-> st.visited \cup {adjacentVertex},
                 parent |-> Put(st.parent, adjacentVertex, vertex),
                 distanceFromSource |->
                   Put(st.distanceFromSource, adjacentVertex, Num(1))])

\* the inner forEach of initializeBFS over the adjacency list of vertex,
\* from the i-th entry on; st holds nextQueue, visited, parent and
\* distanceFromSource
RECURSIVE BreadthFirstPaths_forEach(_, _, _, _, _)
BreadthFirstPaths_forEach(adj, vertex, i, distance, st) ==
  IF i > Len(adj[vertex]) THEN st
  ELSE LET adjacentVertex == adj[vertex][i] IN
         IF adjacentVertex \in st.visited
         THEN BreadthFirstPaths_forEach(adj, vertex, i + 1, distance, st)
         ELSE BreadthFirstPaths_forEach(
                adj, vertex, i + 1, distance,
                [nextQueue |-> Append(st.nextQueue, adjacentVertex),
                 visited |-> st.visited \cup {adjacentVertex},
                 parent |-> Put(st.parent, adjacentVertex, vertex),
                 distanceFromSource |->
                   Put(st.distanceFromSource, adjacentVertex, Num(distance))])

\* queue.forEach of initializeBFS from the j-th vertex of the queue on
RECURSIVE BreadthFirstPaths_queueForEach(_, _, _, _, _)
BreadthFirstPaths_queueForEach(adj, queue, j, distance, st) ==
  IF j > Len(queue) THEN st
  ELSE BreadthFirstPaths_queueForEach(
         adj, queue, j + 1, distance,
         BreadthFirstPaths_forEach(adj, queue[j], 1, distance, st))

\* the while (true) loop of initializeBFS, entered with the given queue and
\* distance
RECURSIVE BreadthFirstPaths_while(_, _, _, _)
BreadthFirstPaths_while(adj, queue, distance, st) ==
  LET r == BreadthFirstPaths_queueForEach(
             adj, queue, 1, distance + 1, [st EXCEPT !.nextQueue = <<>>])
  IN  IF Len(r.nextQueue) = 0 THEN r
      ELSE BreadthFirstPaths_while(adj, r.nextQueue, distance + 1, r)

\* new BreadthFirstPaths(graph, sourceVertex): initializeBFS
BreadthFirstPaths_constructor(source) ==
  /\ graphClass \in {"DirectedGraph", "UndirectedGraph"}
  /\ processor = "none"
  /\ processor' = "BreadthFirstPaths"
  /\ sourceVertex' = JSString(source)
  /\ IF JSString(source) \notin DOMAIN adjacencyList
     THEN /\ lastError' = "Please input a source vertex into the constructor that exists in the graph."
          /\ phase' = "threw"
          /\ parent' = EmptyObject
          /\ visited' = {}
          /\ distanceFromSource' = EmptyObject
     ELSE LET r == BreadthFirstPaths_while(
                     adjacencyList, <<JSString(source)>>, 0,
                     [nextQueue |-> <<>>,
                      visited |-> {JSString(source)},
                      parent |-> EmptyObject,
                      distanceFromSource |->
                        Put(EmptyObject, JSString(source), Num(0))])
          IN  /\ parent' = r.parent
              /\ visited' = r.visited
              /\ distanceFromSource' = r.distanceFromSource
              /\ phase' = "done"
              /\ lastError' = ""
  /\ returned' = Undefined
  /\ UNCHANGED <<graphVars, cycleVars, sorted, minPQ,
                 reversedGraph, mstVars, componentVars>>
  /\ UNCHANGED structureVars
  /\ UNCHANGED searchVars

\* hasPathTo(vertex)
BreadthFirstPaths_hasPathTo(vertex) ==
  IF JSString(vertex) \notin DOMAIN adjacencyList
  THEN Thrown
  ELSE Returned("boolean", 0, <<>>, JSString(vertex) \in visited)

\* distanceTo(vertex)
BreadthFirstPaths_distanceTo(vertex) ==
  LET has == BreadthFirstPaths_hasPathTo(vertex) IN
    IF has.kind = "thrown" THEN Thrown
    ELSE IF ~has.boolean THEN Null
    ELSE LET d == distanceFromSource[JSString(vertex)] IN
           Returned(d.kind, d.value, <<>>, FALSE)

\* the for loop of shortestPathTo from the given vertex on; it never ends
\* once it meets a vertex again or a vertex without a parent entry
RECURSIVE BreadthFirstPaths_forLoop(_, _)
BreadthFirstPaths_forLoop(vertex, path) ==
  IF vertex = sourceVertex
  THEN Returned("array", 0, Append(path, sourceVertex), FALSE)
  ELSE IF vertex \notin DOMAIN parent
            \/ \E i \in 1..Len(path) : path[i] = vertex
  THEN Never
  ELSE BreadthFirstPaths_forLoop(parent[vertex], Append(path, vertex))

\* shortestPathTo(destinationVertex)
BreadthFirstPaths_shortestPathTo(destinationVertex) ==
  LET has == BreadthFirstPaths_hasPathTo(destinationVertex) IN
    IF has.kind = "thrown" THEN Thrown
    ELSE IF ~has.boolean THEN Null
    ELSE BreadthFirstPaths_forLoop(JSString(destinationVertex), <<>>)

\* a query on a path processor that did not throw on construction
PathProcessor_query(class, method, vertex) ==
  /\ processor = class
  /\ phase = "done"
  /\ returned' =
       CASE class = "DepthFirstPaths" /\ method = "hasPathTo" ->
              DepthFirstPaths_hasPathTo(vertex)
         [] class = "DepthFirstPaths" /\ method = "pathTo" ->
              DepthFirstPaths_pathTo(vertex)
         [] class = "BreadthFirstPaths" /\ method = "hasPathTo" ->
              BreadthFirstPaths_hasPathTo(vertex)
         [] class = "BreadthFirstPaths" /\ method = "distanceTo" ->
              BreadthFirstPaths_distanceTo(vertex)
         [] class = "BreadthFirstPaths" /\ method = "shortestPathTo" ->
              BreadthFirstPaths_shortestPathTo(vertex)
  /\ lastError' = IF returned'.kind = "thrown"
                  THEN "The input vertex is not in the graph"
                  ELSE ""
  /\ UNCHANGED <<graphVars, processor, cycleVars, sorted, sourceVertex,
                 distanceFromSource, parent, visited, minPQ, phase,
                 reversedGraph, mstVars, componentVars>>
  /\ UNCHANGED structureVars
  /\ UNCHANGED searchVars

DepthFirstPaths_hasPathTo_call(vertex) ==
  PathProcessor_query("DepthFirstPaths", "hasPathTo", vertex)
DepthFirstPaths_pathTo_call(vertex) ==
  PathProcessor_query("DepthFirstPaths", "pathTo", vertex)
BreadthFirstPaths_hasPathTo_call(vertex) ==
  PathProcessor_query("BreadthFirstPaths", "hasPathTo", vertex)
BreadthFirstPaths_distanceTo_call(vertex) ==
  PathProcessor_query("BreadthFirstPaths", "distanceTo", vertex)
BreadthFirstPaths_shortestPathTo_call(vertex) ==
  PathProcessor_query("BreadthFirstPaths", "shortestPathTo", vertex)

\* addEdge while the graph has fewer than MaxPathEdges edges
DirectedGraph_addEdge_bounded(v1, v2) ==
  totalEdges < MaxPathEdges /\ DirectedGraph_addEdge(v1, v2)

UndirectedGraph_addEdge_bounded(v1, v2) ==
  totalEdges < MaxPathEdges /\ UndirectedGraph_addEdge(v1, v2)

SpecPathsNext ==
  \/ \E v \in PathVertexInputs : DirectedGraph_addVertex(v)
  \/ \E v1, v2 \in PathVertexInputs : DirectedGraph_addEdge_bounded(v1, v2)
  \/ \E v \in PathVertexInputs : UndirectedGraph_addVertex(v)
  \/ \E v1, v2 \in PathVertexInputs : UndirectedGraph_addEdge_bounded(v1, v2)
  \/ \E v \in PathVertexInputs : DepthFirstPaths_constructor(v)
  \/ \E v \in PathVertexInputs : BreadthFirstPaths_constructor(v)
  \/ \E v \in PathVertexInputs : DepthFirstPaths_hasPathTo_call(v)
  \/ \E v \in PathVertexInputs : DepthFirstPaths_pathTo_call(v)
  \/ \E v \in PathVertexInputs : BreadthFirstPaths_hasPathTo_call(v)
  \/ \E v \in PathVertexInputs : BreadthFirstPaths_distanceTo_call(v)
  \/ \E v \in PathVertexInputs : BreadthFirstPaths_shortestPathTo_call(v)

\* DepthFirstPaths and BreadthFirstPaths on a directed or an undirected graph
SpecPaths == (InitDirected \/ InitUndirected) /\ [][SpecPathsNext]_vars

(***************************************************************************)
(* What the paths of an unweighted graph are                               *)
(***************************************************************************)
\* the vertices reached from those of S along adjacency entries
RECURSIVE ReachedFrom(_, _)
ReachedFrom(adj, S) ==
  LET next == S \cup UNION {{adj[u][i] : i \in 1..Len(adj[u])} : u \in S}
  IN  IF next = S THEN S ELSE ReachedFrom(adj, next)

\* the vertices at most n entries away from those of S
RECURSIVE Within(_, _, _)
Within(adj, S, n) ==
  IF n = 0 THEN S
  ELSE Within(adj, S \cup UNION {{adj[u][i] : i \in 1..Len(adj[u])} : u \in S},
              n - 1)

\* the least number of adjacency entries leading from s to a vertex v
\* reached from it
HopDistance(adj, s, v) ==
  CHOOSE n \in 0..Cardinality(DOMAIN adj) :
    /\ v \in Within(adj, {s}, n)
    /\ \A m \in 0..(n - 1) : v \notin Within(adj, {s}, m)

\* x occurs in the adjacency list of y
Adjacent(adj, y, x) == \E i \in 1..Len(adj[y]) : adj[y][i] = x

PathsProcessed ==
  processor \in {"DepthFirstPaths", "BreadthFirstPaths"} /\ phase = "done"

GraphPathInputs ==
  {v \in PathVertexInputs : JSString(v) \in DOMAIN adjacencyList}

\* hasPathTo, and pathTo or shortestPathTo, of the processor that was built
PathProcessor_hasPathTo(v) ==
  IF processor = "DepthFirstPaths" THEN DepthFirstPaths_hasPathTo(v)
  ELSE BreadthFirstPaths_hasPathTo(v)

PathProcessor_pathTo(v) ==
  IF processor = "DepthFirstPaths" THEN DepthFirstPaths_pathTo(v)
  ELSE BreadthFirstPaths_shortestPathTo(v)

(***************************************************************************)
(* C13: once DepthFirstPaths or BreadthFirstPaths has processed a directed *)
(* or undirected graph from a source in it, hasPathTo(v) is true exactly   *)
(* for the vertices reached from the source along adjacency entries, the   *)
(* source included, and false for the other vertices of the graph.         *)
(***************************************************************************)
C13_HasPathToIsReachability ==
  PathsProcessed =>
    \A v \in GraphPathInputs :
      PathProcessor_hasPathTo(v)
        = Returned("boolean", 0, <<>>,
                   JSString(v) \in ReachedFrom(adjacencyList, {sourceVertex}))

\* hasPathTo returned false for a vertex of a graph where the source
\* reaches another vertex
C13_Witness ==
  /\ PathsProcessed
  /\ returned = Returned("boolean", 0, <<>>, FALSE)
  /\ Cardinality(visited) = 2

(***************************************************************************)
(* C14: pathTo of DepthFirstPaths and shortestPathTo of BreadthFirstPaths  *)
(* return null for a vertex the source does not reach; for one it reaches  *)
(* they return a finite sequence from v to the source in which each        *)
(* element occurs in the adjacency list of the next one, and [source] for  *)
(* the source.                                                             *)
(***************************************************************************)
C14_PathIsWalk ==
  PathsProcessed =>
    \A v \in GraphPathInputs :
      LET r == PathProcessor_pathTo(v)
          path == r.array
      IN  IF JSString(v) \notin ReachedFrom(adjacencyList, {sourceVertex})
          THEN r = Null
          ELSE /\ r.kind = "array"
               /\ path # <<>>
               /\ path[1] = JSString(v)
               /\ path[Len(path)] = sourceVertex
               /\ \A i \in 1..(Len(path) - 1) :
                    Adjacent(adjacencyList, path[i + 1], path[i])
               /\ JSString(v) = sourceVertex => path = <<sourceVertex>>

\* a path over two edges was returned on a graph with a cycle through the
\* source
C14_Witness ==
  /\ PathsProcessed
  /\ returned.kind = "array"
  /\ Len(returned.array) = 3
  /\ Adjacent(adjacencyList, returned.array[1], sourceVertex)

(***************************************************************************)
(* C15: distanceTo of BreadthFirstPaths is, for every vertex the source    *)
(* reaches, the least number of edges of a path to it, which is the length *)
(* of shortestPathTo less one, and 0 for the source; it is null for the    *)
(* other vertices of the graph.                                            *)
(***************************************************************************)
C15_DistanceIsHops ==
  (processor = "BreadthFirstPaths" /\ phase = "done") =>
    \A v \in GraphPathInputs :
      LET d == BreadthFirstPaths_distanceTo(v) IN
        IF JSString(v) \notin ReachedFrom(adjacencyList, {sourceVertex})
        THEN d = Null
        ELSE /\ d = Returned("number",
                             HopDistance(adjacencyList, sourceVertex,
                                         JSString(v)),
                             <<>>, FALSE)
             /\ BreadthFirstPaths_shortestPathTo(v).kind = "array"
             /\ d.number = Len(BreadthFirstPaths_shortestPathTo(v).array) - 1
             /\ JSString(v) = sourceVertex => d.number = 0

\* distanceTo returned 1 for a vertex that a later vertex of the queue
\* reaches too
C15_Witness ==
  /\ processor = "BreadthFirstPaths"
  /\ phase = "done"
  /\ returned = Returned("number", 1, <<>>, FALSE)
  /\ \E u, v \in visited :
       /\ HopDistance(adjacencyList, sourceVertex, u) = 1
       /\ HopDistance(adjacencyList, sourceVertex, v) = 1
       /\ u # v
       /\ Adjacent(adjacencyList, u, v)

\* the place of vertex v in the for...in order of the adjacency list
ScanPlace(adj, v) == CHOOSE i \in 1..Len(ForIn(adj)) : ForIn(adj)[i] = v

\* the place at which the scan first meets the component of v
FirstMet(adj, v) ==
  Minimum({ScanPlace(adj, u) : u \in ReachedFrom(adj, {v})})

(***************************************************************************)
(* C16: on every undirected graph ConnectedComponents gives two vertices   *)
(* the same id exactly when a path joins them, componentCount is the       *)
(* number of components, and the id of a vertex is the number of           *)
(* components met before its own when the keys of the adjacency list are   *)
(* scanned in for...in order, so the ids are 0..componentCount-1.          *)
(***************************************************************************)
C16_ComponentIds ==
  processor = "ConnectedComponents" =>
    /\ DOMAIN id = DOMAIN adjacencyList
    /\ \A u, v \in DOMAIN adjacencyList :
         (id[u] = id[v]) <=> (v \in ReachedFrom(adjacencyList, {u}))
    /\ componentCount
         = Cardinality({ReachedFrom(adjacencyList, {v}) :
                          v \in DOMAIN adjacencyList})
    /\ \A v \in DOMAIN adjacencyList :
         id[v] = Cardinality({FirstMet(adjacencyList, u) :
                                u \in {w \in DOMAIN adjacencyList :
                                         FirstMet(adjacencyList, w)
                                           < FirstMet(adjacencyList, v)}})
    /\ {id[v] : v \in DOMAIN adjacencyList} = 0..(componentCount - 1)
    /\ \A v \in {w \in VertexInputs : JSString(w) \in DOMAIN adjacencyList} :
         ConnectedComponents_getComponentId(v).number = id[JSString(v)]

\* getComponentId returned 1 on a graph of two components, the first of
\* them with an edge and the other with a self-loop
C16_Witness ==
  /\ processor = "ConnectedComponents"
  /\ componentCount = 2
  /\ returned = Returned("number", 1, <<>>, FALSE)
  /\ \E u, v \in DOMAIN adjacencyList :
       /\ u # v
       /\ id[u] = 0
       /\ id[v] = 0
  /\ \E v \in DOMAIN adjacencyList :
       id[v] = 1 /\ Adjacent(adjacencyList, v, v)

(***************************************************************************)
(* Queries and reverse() of the graph classes                              *)
(***************************************************************************)
\* Number(s) for the string s of a vertex
JSToNumber(s) == (CHOOSE i \in 1..Len(AllNames) : AllNames[i] = s) - 1

\* vertex == adjacentVertex, for the vertex a caller gave and a stored string
JSLooseEquals(vertex, adjacentVertex) ==
  IF vertex.type = "number" THEN vertex.value = JSToNumber(adjacentVertex)
  ELSE vertex.value = adjacentVertex

\* adjacentVertices reading the adjacency list without its check
Graph_adjacentVertices_Unchecked(vertex) ==
  IF JSString(vertex) \notin DOMAIN adjacencyList THEN Undefined
  ELSE Returned("array", 0, adjacencyList[JSString(vertex)], FALSE)

\* adjacentVertices(vertex), the same in the four graph classes
Graph_adjacentVertices(vertex) ==
  IF JSString(vertex) \notin DOMAIN adjacencyList THEN Thrown
  ELSE Returned("array", 0, adjacencyList[JSString(vertex)], FALSE)

\* UndirectedGraph.degree(vertex) and EdgeWeightedUndirectedGraph.degree
UndirectedGraph_degree(vertex) ==
  IF JSString(vertex) \notin DOMAIN adjacencyList THEN Thrown
  ELSE Returned("number", Len(adjacencyList[JSString(vertex)]), <<>>, FALSE)

\* DirectedGraph.outDegree(vertex)
DirectedGraph_outDegree(vertex) ==
  IF JSString(vertex) \notin DOMAIN adjacencyList THEN Thrown
  ELSE Returned("number", Len(adjacencyList[JSString(vertex)]), <<>>, FALSE)

\* the forEach of inDegree over one adjacency list: the entries equal to vertex
DirectedGraph_inDegree_forEach(vertex, adjacentVertices) ==
  Cardinality({i \in 1..Len(adjacentVertices) :
                 JSLooseEquals(vertex, adjacentVertices[i])})

\* the for...in loop of inDegree from the i-th key on
RECURSIVE DirectedGraph_inDegree_forIn(_, _, _)
DirectedGraph_inDegree_forIn(vertex, keys, i) ==
  IF i > Len(keys) THEN 0
  ELSE DirectedGraph_inDegree_forEach(vertex, adjacencyList[keys[i]])
         + DirectedGraph_inDegree_forIn(vertex, keys, i + 1)

\* DirectedGraph.inDegree(vertex)
DirectedGraph_inDegree(vertex) ==
  IF JSString(vertex) \notin DOMAIN adjacencyList THEN Thrown
  ELSE IF reversedGraph.defined
            /\ JSString(vertex) \in DOMAIN reversedGraph.object
  THEN Returned("number", Len(reversedGraph.object[JSString(vertex)]),
                <<>>, FALSE)
  ELSE Returned("number",
                DirectedGraph_inDegree_forIn(vertex, ForIn(adjacencyList), 1),
                <<>>, FALSE)

\* the forEach of reverse over the adjacency list of vertex
RECURSIVE DirectedGraph_reverse_forEach(_, _, _, _)
DirectedGraph_reverse_forEach(adj, vertex, i, reversed) ==
  IF i > Len(adj[vertex]) THEN reversed
  ELSE DirectedGraph_reverse_forEach(
         adj, vertex, i + 1,
         [reversed EXCEPT ![adj[vertex][i]] = Append(@, vertex)])

\* the second for...in loop of reverse from the i-th key on
RECURSIVE DirectedGraph_reverse_forIn(_, _, _, _)
DirectedGraph_reverse_forIn(adj, keys, i, reversed) ==
  IF i > Len(keys) THEN reversed
  ELSE DirectedGraph_reverse_forIn(
         adj, keys, i + 1,
         DirectedGraph_reverse_forEach(adj, keys[i], 1, reversed))

\* DirectedGraph.reverse()
DirectedGraph_reverse ==
  /\ graphClass = "DirectedGraph"
  /\ processor = "none"
  /\ reversedGraph' =
       [defined |-> TRUE,
        object |-> DirectedGraph_reverse_forIn(
                     adjacencyList, ForIn(adjacencyList), 1,
                     [k \in DOMAIN adjacencyList |-> <<>>])]
  /\ returned' = Returned("object", 0, <<>>, FALSE)
  /\ lastError' = ""
  /\ UNCHANGED <<graphVars, processor, cycleVars, sorted, sourceVertex,
                 distanceFromSource, parent, visited, minPQ, phase,
                 mstVars, componentVars>>
  /\ UNCHANGED structureVars
  /\ UNCHANGED searchVars

\* the graph classes that have the method
GraphClassesWith(method) ==
  CASE method = "adjacentVertices" ->
         {"DirectedGraph", "UndirectedGraph", "EdgeWeightedDirectedGraph",
          "EdgeWeightedUndirectedGraph"}
    [] method = "degree" -> {"UndirectedGraph", "EdgeWeightedUndirectedGraph"}
    [] method \in {"inDegree", "outDegree"} -> {"DirectedGraph"}

\* the message of the error a graph query raises for an absent vertex
NoSuchVertex ==
  IF graphClass \in {"DirectedGraph", "UndirectedGraph"}
  THEN "That vertex does not exist in the graph"
  ELSE "That vertex does not exist in the graph, my friend!"

\* a query on a graph
Graph_query(method, vertex) ==
  /\ graphClass \in GraphClassesWith(method)
  /\ processor = "none"
  /\ returned' = CASE method = "adjacentVertices" ->
                        Graph_adjacentVertices(vertex)
                   [] method = "degree" -> UndirectedGraph_degree(vertex)
                   [] method = "inDegree" -> DirectedGraph_inDegree(vertex)
                   [] method = "outDegree" -> DirectedGraph_outDegree(vertex)
  /\ lastError' = IF returned'.kind = "thrown" THEN NoSuchVertex ELSE ""
  /\ UNCHANGED <<graphVars, processor, cycleVars, sorted, sourceVertex,
                 distanceFromSource, parent, visited, minPQ, phase,
                 reversedGraph, mstVars, componentVars>>
  /\ UNCHANGED structureVars
  /\ UNCHANGED searchVars

Graph_adjacentVertices_call(vertex) == Graph_query("adjacentVertices", vertex)
UndirectedGraph_degree_call(vertex) == Graph_query("degree", vertex)
DirectedGraph_inDegree_call(vertex) == Graph_query("inDegree", vertex)
DirectedGraph_outDegree_call(vertex) == Graph_query("outDegree", vertex)

(***************************************************************************)
(* The four graph classes with their queries, and the processors that      *)
(* take a vertex                                                           *)
(***************************************************************************)
\* the one weight given to edges where weights do not matter
UnitWeights == {1}

\* edges a graph may hold when every class and processor is explored together
MaxGraphEdges == 2

Graph_addEdge_bounded(v1, v2) ==
  \/ /\ totalEdges < MaxGraphEdges
     /\ DirectedGraph_addEdge(v1, v2)
  \/ /\ totalEdges < MaxGraphEdges
     /\ UndirectedGraph_addEdge(v1, v2)
  \/ /\ totalEdges < MaxGraphEdges
     /\ \E w \in UnitWeights : EdgeWeightedDirectedGraph_addEdge(v1, v2, w)
  \/ /\ totalEdges < MaxGraphEdges
     /\ \E w \in UnitWeights : EdgeWeightedUndirectedGraph_addEdge(v1, v2, w)

Graph_addVertex(v) ==
  \/ DirectedGraph_addVertex(v)
  \/ UndirectedGraph_addVertex(v)
  \/ EdgeWeightedDirectedGraph_addVertex(v)
  \/ EdgeWeightedUndirectedGraph_addVertex(v)

SpecGraphsNext ==
  \/ \E v \in PathVertexInputs : Graph_addVertex(v)
  \/ \E v1, v2 \in PathVertexInputs : Graph_addEdge_bounded(v1, v2)
  \/ DirectedGraph_reverse
  \/ \E v \in PathVertexInputs : Graph_adjacentVertices_call(v)
  \/ \E v \in PathVertexInputs : UndirectedGraph_degree_call(v)
  \/ \E v \in PathVertexInputs : DirectedGraph_inDegree_call(v)
  \/ \E v \in PathVertexInputs : DirectedGraph_outDegree_call(v)
  \/ \E v \in PathVertexInputs : DepthFirstPaths_constructor(v)
  \/ \E v \in PathVertexInputs : BreadthFirstPaths_constructor(v)
  \/ \E v \in PathVertexInputs : DepthFirstPaths_hasPathTo_call(v)
  \/ \E v \in PathVertexInputs : DepthFirstPaths_pathTo_call(v)
  \/ \E v \in PathVertexInputs : BreadthFirstPaths_hasPathTo_call(v)
  \/ \E v \in PathVertexInputs : BreadthFirstPaths_distanceTo_call(v)
  \/ \E v \in PathVertexInputs : BreadthFirstPaths_shortestPathTo_call(v)
  \/ ConnectedComponents_constructor
  \/ ConnectedComponents_getComponentCount_call
  \/ \E v \in PathVertexInputs : ConnectedComponents_getComponentId_call(v)
  \/ \E v \in PathVertexInputs : ShortestPath_constructor(v)
  \/ ShortestPath_while
  \/ \E v \in PathVertexInputs : ShortestPath_hasPathTo_call(v)
  \/ \E v \in PathVertexInputs : ShortestPath_distanceTo_call(v)
  \/ \E v \in PathVertexInputs : ShortestPath_shortestPathTo_call(v)

SpecGraphs ==
  /\ \/ InitDirected
     \/ InitUndirected
     \/ InitWeighted("EdgeWeightedDirectedGraph")
     \/ InitWeighted("EdgeWeightedUndirectedGraph")
  /\ [][SpecGraphsNext]_vars

(***************************************************************************)
(* Degree sums of the unweighted graphs                                    *)
(***************************************************************************)
\* the vertex of key k as a caller names it with a string
StringInput(k) == [type |-> "string", value |-> k]

\* the sum of f[x] over the x in S
RECURSIVE SumOver(_, _)
SumOver(f, S) ==
  IF S = {} THEN 0
  ELSE LET x == CHOOSE y \in S : TRUE
       IN  f[x] + SumOver(f, S \ {x})

\* the sum over the vertices of what outDegree returns
OutDegreeSum ==
  SumOver([k \in DOMAIN adjacencyList |->
             DirectedGraph_outDegree(StringInput(k)).number],
          DOMAIN adjacencyList)

\* the sum over the vertices of what inDegree returns
InDegreeSum ==
  SumOver([k \in DOMAIN adjacencyList |->
             DirectedGraph_inDegree(StringInput(k)).number],
          DOMAIN adjacencyList)

\* the sum over the vertices of what degree returns
DegreeSum ==
  SumOver([k \in DOMAIN adjacencyList |->
             UndirectedGraph_degree(StringInput(k)).number],
          DOMAIN adjacencyList)

\* C17: in every state of a DirectedGraph reached by addVertex, addEdge and
\* reverse calls, addEdge after reverse included, the sum of outDegree(v)
\* over the vertices, the sum of inDegree(v) over the vertices and totalEdges
\* are equal.  The code does not keep this: addEdge leaves reversedGraph as
\* reverse() built it, and inDegree answers from reversedGraph.
C17_DegreeSums ==
  graphClass = "DirectedGraph" =>
    /\ OutDegreeSum = totalEdges
    /\ InDegreeSum = totalEdges

\* C18: in every state of an UndirectedGraph reached by addVertex and addEdge
\* calls, self-loops and parallel edges included, the sum of degree(v) over
\* the vertices is 2 * totalEdges and totalVertices is the number of keys of
\* the adjacency list.
C18_UndirectedDegreeSum ==
  graphClass = "UndirectedGraph" =>
    /\ DegreeSum = 2 * totalEdges
    /\ totalVertices = Cardinality(DOMAIN adjacencyList)

\* degree returned 3 for a vertex with a self-loop and one more edge
C18_Witness ==
  /\ graphClass = "UndirectedGraph"
  /\ totalEdges = 2
  /\ returned = Returned("number", 3, <<>>, FALSE)
  /\ \E v \in DOMAIN adjacencyList :
       /\ Len(adjacencyList[v]) = 3
       /\ Cardinality({i \in 1..3 : adjacencyList[v][i] = v}) = 2

\* the errors addVertex raises for a vertex that exists
DuplicateVertexErrors ==
  {"That node already exists in the graph",
   "That node already exists in the graph, my friend!"}

\* C19: in each of the four graph classes, addVertex(v) for a vertex that is
\* present (added by addVertex or by addEdge, 0 and "0" being one vertex)
\* raises an error and leaves the adjacency list, totalVertices and
\* totalEdges as they were; the adjacency sequence of v is not emptied.
C19_DuplicateVertexRaises ==
  [][\A v \in PathVertexInputs :
       (Graph_addVertex(v) /\ JSString(v) \in DOMAIN adjacencyList)
         => /\ lastError' \in DuplicateVertexErrors
            /\ adjacencyList' = adjacencyList
            /\ totalVertices' = totalVertices
            /\ totalEdges' = totalEdges]_vars

\* addVertex has just raised on a graph whose vertices all came from addEdge
\* and all have adjacent vertices still
C19_Witness ==
  /\ lastError \in DuplicateVertexErrors
  /\ totalEdges = 1
  /\ totalVertices = 2
  /\ \A v \in DOMAIN adjacencyList : adjacencyList[v] # <<>>

\* a call of a query that names vertex, on a graph or on a processor
VertexQuery(vertex) ==
  \/ Graph_adjacentVertices_call(vertex)
  \/ UndirectedGraph_degree_call(vertex)
  \/ DirectedGraph_inDegree_call(vertex)
  \/ DirectedGraph_outDegree_call(vertex)
  \/ DepthFirstPaths_hasPathTo_call(vertex)
  \/ DepthFirstPaths_pathTo_call(vertex)
  \/ BreadthFirstPaths_hasPathTo_call(vertex)
  \/ BreadthFirstPaths_distanceTo_call(vertex)
  \/ BreadthFirstPaths_shortestPathTo_call(vertex)
  \/ ShortestPath_hasPathTo_call(vertex)
  \/ ShortestPath_distanceTo_call(vertex)
  \/ ShortestPath_shortestPathTo_call(vertex)
  \/ ConnectedComponents_getComponentId_call(vertex)

\* the construction of a path processor from the source vertex
SourceConstructor(source) ==
  \/ DepthFirstPaths_constructor(source)
  \/ BreadthFirstPaths_constructor(source)
  \/ ShortestPath_constructor(source)

\* C20: a query that names a vertex absent from the graph raises an error,
\* returns no value and changes no state (adjacentVertices, degree, inDegree,
\* outDegree, hasPathTo, pathTo, distanceTo, shortestPathTo, getComponentId);
\* the construction of DepthFirstPaths, BreadthFirstPaths or ShortestPath
\* from a source absent from the graph raises an error, processes nothing
\* and leaves the graph as it was.
C20_AbsentVertexRaises ==
  [][\A v \in PathVertexInputs :
       JSString(v) \notin DOMAIN adjacencyList =>
         /\ VertexQuery(v) =>
              /\ returned' = Thrown
              /\ lastError' # ""
              /\ UNCHANGED <<graphVars, processor, cycleVars, sorted,
                             pathVars, reversedGraph, mstVars,
                             componentVars>>
         /\ SourceConstructor(v) =>
              /\ phase' = "threw"
              /\ lastError' # ""
              /\ visited' = {}
              /\ UNCHANGED <<graphVars, reversedGraph>>]_vars

\* pathTo or hasPathTo of a DepthFirstPaths that reached two vertices has
\* just raised for a vertex that is not in the graph
C20_Witness ==
  /\ processor = "DepthFirstPaths"
  /\ phase = "done"
  /\ Cardinality(visited) = 2
  /\ returned = Thrown
  /\ lastError = "The input vertex is not in the graph"

(***************************************************************************)
(* MinPriorityQueue: src/unnamed/part_009, lines 248-421                   *)
(***************************************************************************)
\* no graph and no processor: the state of the graph variables for a data
\* structure that stands alone
NoGraphState ==
  /\ graphClass = "none"
  /\ adjacencyList = EmptyObject
  /\ totalVertices = 0
  /\ totalEdges = 0
  /\ lastError = ""
  /\ NoProcessorState

\* keys held by the heap array at most, the cells left undefined included
MaxHeapLength == 4

\* keys a caller inserts
HeapKeys == {1, 2, 3}

\* a cell of the heap array: a key, or undefined
Key(n) == [defined |-> TRUE, key |-> n]
UndefinedKey == [defined |-> FALSE, key |-> 0]

\* heap[i], undefined past the end of the array
HeapAt(h, i) == IF i \in 1..Len(h) THEN h[i] ELSE UndefinedKey

\* a > b and a >= b of JavaScript: false when either side is undefined
KeyGreater(a, b) == a.defined /\ b.defined /\ a.key > b.key
KeyGreaterOrEqual(a, b) == a.defined /\ b.defined /\ a.key >= b.key

\* swap(arr, indexA, indexB): the destructuring assignment writes both
\* cells, and a write at index arr.length makes the array one longer
MinPriorityQueue_swap(arr, indexA, indexB) ==
  LET last == IF indexA > Len(arr) \/ indexB > Len(arr)
              THEN IF indexA > indexB THEN indexA ELSE indexB
              ELSE Len(arr)
  IN  [i \in 1..last |->
         IF i = indexA THEN HeapAt(arr, indexB)
         ELSE IF i = indexB THEN HeapAt(arr, indexA)
         ELSE HeapAt(arr, i)]

\* sink(heap, parentIndex); heap.length is Len(h) + 1
RECURSIVE MinPriorityQueue_sink(_, _)
MinPriorityQueue_sink(h, parentIndex) ==
  IF parentIndex < 0 \/ parentIndex > Len(h) + 1
  THEN [heap |-> h, threw |-> TRUE]
  ELSE LET childIndexA == 2 * parentIndex
           childIndexB == 2 * parentIndex + 1
       IN  IF childIndexA > Len(h) + 1
           THEN [heap |-> h, threw |-> FALSE]
           ELSE LET smallestChildIndex ==
                      IF KeyGreater(HeapAt(h, childIndexA),
                                   HeapAt(h, childIndexB))
                      THEN childIndexB
                      ELSE childIndexA
                IN  IF KeyGreater(HeapAt(h, smallestChildIndex),
                                 HeapAt(h, parentIndex))
                    THEN [heap |-> h, threw |-> FALSE]
                    ELSE MinPriorityQueue_sink(
                           MinPriorityQueue_swap(h, parentIndex,
                                                 smallestChildIndex),
                           smallestChildIndex)

\* swim(heap, childIndex)
RECURSIVE MinPriorityQueue_swim(_, _)
MinPriorityQueue_swim(h, childIndex) ==
  IF childIndex < 0 \/ childIndex > Len(h) + 1
  THEN [heap |-> h, threw |-> TRUE]
  ELSE IF childIndex < 2 THEN [heap |-> h, threw |-> FALSE]
  ELSE LET parentIndex == childIndex \div 2
       IN  IF KeyGreaterOrEqual(HeapAt(h, childIndex), HeapAt(h, parentIndex))
           THEN [heap |-> h, threw |-> FALSE]
           ELSE MinPriorityQueue_swim(
                  MinPriorityQueue_swap(h, childIndex, parentIndex),
                  parentIndex)

\* new MinPriorityQueue()
InitMinPriorityQueue ==
  /\ NoGraphState
  /\ structure = "MinPriorityQueue"
  /\ heap = <<>>
  /\ ring = <<>>
  /\ size = 0
  /\ oldest = 0
  /\ newest = 0
  /\ storage = <<>>
  /\ maxes = <<>>
  /\ capacity = 0

\* isEmpty(): this.heap[1] === undefined
MinPriorityQueue_isEmpty(h) == ~HeapAt(h, 1).defined

\* what deleteMin() does to the heap h: the heap it leaves and what it returns
MinPriorityQueue_deleteMin_result(h) ==
  IF MinPriorityQueue_isEmpty(h)
  THEN [heap |-> h, returned |-> Thrown]
  ELSE LET swapped == MinPriorityQueue_swap(h, 1, Len(h))
           min == swapped[Len(swapped)]
           sunk == MinPriorityQueue_sink(SubSeq(swapped, 1, Len(swapped) - 1),
                                         1)
       IN  [heap |-> sunk.heap,
            returned |-> IF sunk.threw THEN Thrown
                         ELSE IF min.defined
                         THEN Returned("number", min.key, <<>>, FALSE)
                         ELSE Undefined]

\* insert(key) for a number key
MinPriorityQueue_insert(key) ==
  /\ structure = "MinPriorityQueue"
  /\ Len(heap) < MaxHeapLength
  /\ LET swum == MinPriorityQueue_swim(Append(heap, Key(key)), Len(heap) + 1)
     IN  /\ heap' = swum.heap
         /\ returned' = IF swum.threw THEN Thrown
                        ELSE Returned("boolean", 0, <<>>, TRUE)
         /\ lastError' = IF swum.threw
                         THEN "Please input valid inputs, my friend!"
                         ELSE ""
  /\ UNCHANGED <<structure, ring, size, oldest, newest, storage, maxes,
                 capacity>>
  /\ UNCHANGED <<graphVars, processor, cycleVars, sorted, pathVars,
                 reversedGraph, mstVars, componentVars>>
  /\ UNCHANGED searchVars

\* deleteMin()
MinPriorityQueue_deleteMin ==
  /\ structure = "MinPriorityQueue"
  /\ LET r == MinPriorityQueue_deleteMin_result(heap)
     IN  /\ heap' = r.heap
         /\ returned' = r.returned
         /\ lastError' = IF r.returned # Thrown THEN ""
                         ELSE IF MinPriorityQueue_isEmpty(heap)
                         THEN "Heap is empty, my friend!"
                         ELSE "Please input valid inputs, my friend!"
  /\ UNCHANGED <<structure, ring, size, oldest, newest, storage, maxes,
                 capacity>>
  /\ UNCHANGED <<graphVars, processor, cycleVars, sorted, pathVars,
                 reversedGraph, mstVars, componentVars>>
  /\ UNCHANGED searchVars

\* a call of isEmpty()
MinPriorityQueue_isEmpty_call ==
  /\ structure = "MinPriorityQueue"
  /\ returned' = Returned("boolean", 0, <<>>, MinPriorityQueue_isEmpty(heap))
  /\ lastError' = ""
  /\ UNCHANGED structureVars
  /\ UNCHANGED <<graphVars, processor, cycleVars, sorted, pathVars,
                 reversedGraph, mstVars, componentVars>>
  /\ UNCHANGED searchVars

SpecMinPriorityQueueNext ==
  \/ \E key \in HeapKeys : MinPriorityQueue_insert(key)
  \/ MinPriorityQueue_deleteMin
  \/ MinPriorityQueue_isEmpty_call

SpecMinPriorityQueue ==
  InitMinPriorityQueue /\ [][SpecMinPriorityQueueNext]_vars

\* the keys inserted and not yet deleted: the keys in the cells of the heap
HeldKeys == {heap[i].key : i \in {j \in 1..Len(heap) : heap[j].defined}}

\* C22: after any insert and deleteMin calls, deleteMin() returns the
\* smallest key inserted and not yet deleted, isEmpty() is true exactly when
\* no such key is left, and deleteMin() raises exactly when the queue holds
\* no key.  The code does not keep this: with one key left after a
\* deleteMin, sink swaps the key with the undefined cell heap[2].
C22_MinPriorityQueue ==
  structure = "MinPriorityQueue" =>
    /\ MinPriorityQueue_isEmpty(heap) <=> HeldKeys = {}
    /\ LET r == MinPriorityQueue_deleteMin_result(heap)
       IN  IF HeldKeys = {} THEN r.returned = Thrown
           ELSE /\ r.returned.kind = "number"
                /\ r.returned.number \in HeldKeys
                /\ \A k \in HeldKeys : r.returned.number <= k

(***************************************************************************)
(* CircularQueue: src/unnamed/part_009, lines 155-228                      *)
(***************************************************************************)
\* the largest size a CircularQueue is constructed with
MaxRingSize == 3

\* the largest index oldest is let grow to (it grows without end when the
\* size is 1)
MaxOldest == 3

\* values a caller enqueues
RingValues == {1, 2}

\* incrementIndex(index, length)
incrementIndex(index, length) == IF index = length - 1 THEN 0 ELSE index + 1

\* new CircularQueue(size)
InitCircularQueue ==
  /\ NoGraphState
  /\ structure = "CircularQueue"
  /\ ring = <<>>
  /\ size \in 1..MaxRingSize
  /\ oldest = 1
  /\ newest = 0
  /\ heap = <<>>
  /\ storage = <<>>
  /\ maxes = <<>>
  /\ capacity = 0

\* this.ring[index], undefined for a cell that was never written or deleted
RingAt(r, index) ==
  IF index \in DOMAIN r THEN Returned("number", r[index], <<>>, FALSE)
  ELSE Undefined

\* dequeue()
CircularQueue_dequeue ==
  /\ structure = "CircularQueue"
  /\ IF RingAt(ring, oldest) = Undefined
     THEN /\ returned' = Undefined
          /\ UNCHANGED <<ring, oldest>>
     ELSE /\ returned' = RingAt(ring, oldest)
          /\ ring' = [i \in DOMAIN ring \ {oldest} |-> ring[i]]
          /\ oldest' = incrementIndex(oldest, size)
  /\ lastError' = ""
  /\ UNCHANGED <<structure, heap, size, newest, storage, maxes, capacity>>
  /\ UNCHANGED <<graphVars, processor, cycleVars, sorted, pathVars,
                 reversedGraph, mstVars, componentVars>>
  /\ UNCHANGED searchVars

\* enqueue(value) for a defined value
CircularQueue_enqueue(value) ==
  /\ structure = "CircularQueue"
  /\ oldest <= MaxOldest
  /\ newest' = incrementIndex(newest, size)
  /\ oldest' = IF RingAt(ring, newest') # Undefined
               THEN incrementIndex(oldest, size)
               ELSE oldest
  /\ ring' = [i \in DOMAIN ring \cup {newest'} |->
                IF i = newest' THEN value ELSE ring[i]]
  /\ returned' = Returned("boolean", 0, <<>>, TRUE)
  /\ lastError' = ""
  /\ UNCHANGED <<structure, heap, size, storage, maxes, capacity>>
  /\ UNCHANGED <<graphVars, processor, cycleVars, sorted, pathVars,
                 reversedGraph, mstVars, componentVars>>
  /\ UNCHANGED searchVars

SpecCircularQueueNext ==
  \/ \E value \in RingValues : CircularQueue_enqueue(value)
  \/ CircularQueue_dequeue

SpecCircularQueue == InitCircularQueue /\ [][SpecCircularQueueNext]_vars

\* the index reached from index by n calls of incrementIndex
RECURSIVE IndexAfter(_, _, _)
IndexAfter(index, length, n) ==
  IF n = 0 THEN index
  ELSE IndexAfter(incrementIndex(index, length), length, n - 1)

\* the values the ring holds, read from oldest on
Retained(r, old, length) ==
  [n \in 1..Cardinality(DOMAIN r) |->
     RingAt(r, IndexAfter(old, length, n - 1))]

\* the last n elements of the sequence q, all of q if it is shorter
LastN(q, n) ==
  IF Len(q) <= n THEN q ELSE SubSeq(q, Len(q) - n + 1, Len(q))

\* C23: for a CircularQueue of any size N >= 1, the queue retains the most
\* recent at most N enqueued values that were not dequeued: enqueue appends
\* its value and, on a full queue, drops the oldest; dequeue returns and
\* removes the oldest retained value, or returns undefined when nothing is
\* retained.  The code does not keep this for N = 1, where oldest starts at
\* index 1 and the only cell is index 0.
C23_CircularQueue ==
  [][/\ \A value \in RingValues :
          CircularQueue_enqueue(value) =>
            Retained(ring', oldest', size) =
              LastN(Append(Retained(ring, oldest, size),
                           Returned("number", value, <<>>, FALSE)),
                    size)
     /\ CircularQueue_dequeue =>
          IF DOMAIN ring = {}
          THEN returned' = Undefined /\ DOMAIN ring' = {}
          ELSE /\ returned' = Head(Retained(ring, oldest, size))
               /\ Retained(ring', oldest', size) =
                    Tail(Retained(ring, oldest, size))]_vars

(***************************************************************************)
(* Stack with getMax: src/unnamed/part_010                                 *)
(***************************************************************************)
\* the largest capacity a Stack is constructed with
MaxCapacity == 3

\* values a caller pushes
StackValues == {1, 2, 3}

NegativeInfinity == [kind |-> "-Infinity", value |-> 0]

\* new Stack(capacity)
InitStack ==
  /\ NoGraphState
  /\ structure = "Stack"
  /\ maxes = <<NegativeInfinity>>
  /\ storage = <<>>
  /\ capacity \in 1..MaxCapacity
  /\ heap = <<>>
  /\ ring = <<>>
  /\ size = 0
  /\ oldest = 0
  /\ newest = 0

\* the last element of the array arr as a number of JavaScript, undefined
\* (kind "undefined") for an empty array
LastOf(arr) ==
  IF arr = <<>> THEN [kind |-> "undefined", value |-> 0] ELSE arr[Len(arr)]

\* val > max for a number val
GreaterThanMax(val, max) ==
  \/ max.kind = "-Infinity"
  \/ max.kind = "number" /\ val > max.value

\* getMax()
Stack_getMax(m) ==
  LET max == LastOf(m)
  IN  Returned(max.kind, max.value, <<>>, FALSE)

\* push(val)
Stack_push(val) ==
  /\ structure = "Stack"
  /\ IF Len(storage) < capacity
     THEN /\ storage' = Append(storage, val)
          /\ maxes' = IF GreaterThanMax(val, LastOf(maxes))
                      THEN Append(maxes, Num(val))
                      ELSE maxes
     ELSE UNCHANGED <<storage, maxes>>
  /\ returned' = Returned("number", Len(storage'), <<>>, FALSE)
  /\ lastError' = ""
  /\ UNCHANGED <<structure, heap, ring, size, oldest, newest, capacity>>
  /\ UNCHANGED <<graphVars, processor, cycleVars, sorted, pathVars,
                 reversedGraph, mstVars, componentVars>>
  /\ UNCHANGED searchVars

\* pop()
Stack_pop ==
  /\ structure = "Stack"
  /\ LET popped == IF storage = <<>> THEN [kind |-> "undefined", value |-> 0]
                   ELSE Num(storage[Len(storage)])
         max == LastOf(maxes)
     IN  /\ maxes' = IF popped = max /\ maxes # <<>>
                     THEN SubSeq(maxes, 1, Len(maxes) - 1)
                     ELSE maxes
         /\ storage' = IF storage = <<>> THEN storage
                       ELSE SubSeq(storage, 1, Len(storage) - 1)
         /\ returned' = Returned(popped.kind, popped.value, <<>>, FALSE)
  /\ lastError' = ""
  /\ UNCHANGED <<structure, heap, ring, size, oldest, newest, capacity>>
  /\ UNCHANGED <<graphVars, processor, cycleVars, sorted, pathVars,
                 reversedGraph, mstVars, componentVars>>
  /\ UNCHANGED searchVars

\* a call of getMax()
Stack_getMax_call ==
  /\ structure = "Stack"
  /\ returned' = Stack_getMax(maxes)
  /\ lastError' = ""
  /\ UNCHANGED structureVars
  /\ UNCHANGED <<graphVars, processor, cycleVars, sorted, pathVars,
                 reversedGraph, mstVars, componentVars>>
  /\ UNCHANGED searchVars

SpecStackNext ==
  \/ \E val \in StackValues : Stack_push(val)
  \/ Stack_pop
  \/ Stack_getMax_call

SpecStack == InitStack /\ [][SpecStackNext]_vars

\* C27: after any push and pop calls, the same value pushed several times
\* included, getMax() returns the largest value stored in the stack, and
\* -Infinity when the stack is empty.  The code does not keep this: push
\* records a value on maxes only when it is greater than the maximum, and
\* pop drops the maximum from maxes when it pops a value equal to it.
C27_StackMax ==
  structure = "Stack" =>
    IF storage = <<>>
    THEN Stack_getMax(maxes) = Returned("-Infinity", 0, <<>>, FALSE)
    ELSE /\ Stack_getMax(maxes).kind = "number"
         /\ \E i \in 1..Len(storage) :
              storage[i] = Stack_getMax(maxes).number
         /\ \A i \in 1..Len(storage) :
              storage[i] <= Stack_getMax(maxes).number

(***************************************************************************)
(* The loop of initializeDijkstra, step by step                            *)
(***************************************************************************)
\* ShortestPath is in its loop or has left it
DijkstraRunning ==
  processor = "ShortestPath" /\ phase \in {"loop", "done"}

\* C24: ShortestPath processing terminates on every edge-weighted directed
\* graph, with cycles, zero-weight edges, self-loops and parallel edges:
\* every step of the loop leaves fewer steps to do; a step adds at most one
\* vertex to visited and never removes one; a step that adds none only takes
\* an entry off the queue; the step that adds v inserts at most one entry
\* for each edge out of v; so the queue has had at most 1 + (edges out of
\* visited vertices) insertions.
C24_DijkstraTerminates ==
  /\ [](DijkstraRunning =>
          BagCardinality(minPQ) + Cardinality(visited)
            <= 1 + EdgesOf(adjacencyList, visited))
  /\ [][(processor = "ShortestPath" /\ phase = "loop") =>
          /\ phase' # "threw"
          /\ StepsLeft' < StepsLeft
          /\ visited \subseteq visited'
          /\ Cardinality(visited' \ visited) <= 1
          /\ visited' = visited =>
               /\ UNCHANGED <<distanceFromSource, parent>>
               /\ BagCardinality(minPQ') <= BagCardinality(minPQ)
          /\ \A v \in visited' \ visited :
               BagCardinality(minPQ') - BagCardinality(minPQ) + 1
                 <= Len(adjacencyList[v])]_vars

\* processing has ended on a graph with a self-loop, a zero-weight edge and
\* a cycle through two vertices, both of them visited
C24_Witness ==
  /\ Processed
  /\ \E u, v \in visited :
       /\ u # v
       /\ \E i \in 1..Len(adjacencyList[u]) :
            /\ adjacencyList[u][i].v2 = v
            /\ adjacencyList[u][i].weight = 0
       /\ \E i \in 1..Len(adjacencyList[v]) : adjacencyList[v][i].v2 = u
       /\ \E i \in 1..Len(adjacencyList[u]) : adjacencyList[u][i].v2 = u

\* C29: in ShortestPath on a graph with non-negative weights, when a vertex
\* is added to visited its stored distance is already its shortest distance
\* from the source, no vertex visited before it has a greater distance, and
\* no step changes the distance or the parent of a visited vertex.
C29_FinalizedIsFinal ==
  [][(processor = "ShortestPath" /\ phase = "loop") =>
       /\ \A v \in visited' \ visited :
            /\ distanceFromSource[v].kind = "number"
            /\ TrueDistance(adjacencyList, sourceVertex, v)
                 = Returned("number", distanceFromSource[v].value, <<>>, FALSE)
            /\ \A u \in visited :
                 distanceFromSource[u].value <= distanceFromSource[v].value
       /\ \A u \in visited' :
            /\ distanceFromSource'[u] = distanceFromSource[u]
            /\ (u \in DOMAIN parent') = (u \in DOMAIN parent)
            /\ u \in DOMAIN parent => parent'[u] = parent[u]]_vars

\* three vertices are visited, one of them at distance 0 through another
\* vertex although an edge of weight 1 leads to it from the source
C29_Witness ==
  /\ processor = "ShortestPath"
  /\ phase = "loop"
  /\ Cardinality(visited) = 3
  /\ \E v \in visited :
       /\ v # sourceVertex
       /\ v \in DOMAIN parent
       /\ parent[v] # sourceVertex
       /\ distanceFromSource[v] = Num(0)
       /\ \E i \in 1..Len(adjacencyList[sourceVertex]) :
            /\ adjacencyList[sourceVertex][i].v2 = v
            /\ adjacencyList[sourceVertex][i].weight = 1

(***************************************************************************)
(* initializeBFS and depthFirstSearch one callback at a time               *)
(***************************************************************************)
\* what a search step leaves alone
searchFrame ==
  <<graphVars, processor, cycleVars, sorted, sourceVertex, minPQ,
    reversedGraph, mstVars, componentVars, structureVars>>

\* new BreadthFirstPaths(graph, sourceVertex) up to the first queue.forEach
BreadthFirstPaths_begin(source) ==
  /\ graphClass \in {"DirectedGraph", "UndirectedGraph"}
  /\ processor = "none"
  /\ processor' = "BreadthFirstPaths"
  /\ sourceVertex' = JSString(source)
  /\ parent' = EmptyObject
  /\ IF JSString(source) \notin DOMAIN adjacencyList
     THEN /\ lastError' = "Please input a source vertex into the constructor that exists in the graph."
          /\ phase' = "threw"
          /\ visited' = {}
          /\ distanceFromSource' = EmptyObject
          /\ UNCHANGED <<bfsQueue, bfsNextQueue, bfsDistance>>
     ELSE /\ bfsQueue' = <<JSString(source)>>
          /\ visited' = {JSString(source)}
          /\ distanceFromSource' = Put(EmptyObject, JSString(source), Num(0))
          /\ bfsNextQueue' = <<>>
          /\ bfsDistance' = 1
          /\ phase' = "loop"
          /\ lastError' = ""
  /\ queueIndex' = 0
  /\ edgeIndex' = 0
  /\ returned' = Undefined
  /\ UNCHANGED <<graphVars, cycleVars, sorted, minPQ, reversedGraph, mstVars,
                 componentVars, structureVars, callStack>>

\* one call of the inner forEach callback of initializeBFS
BreadthFirstPaths_callback ==
  /\ processor = "BreadthFirstPaths"
  /\ phase = "loop"
  /\ queueIndex < Len(bfsQueue)
  /\ edgeIndex < Len(adjacencyList[bfsQueue[queueIndex + 1]])
  /\ LET vertex == bfsQueue[queueIndex + 1]
         adjacentVertex == adjacencyList[vertex][edgeIndex + 1]
     IN  IF adjacentVertex \in visited
         THEN UNCHANGED <<bfsNextQueue, visited, parent, distanceFromSource>>
         ELSE /\ bfsNextQueue' = Append(bfsNextQueue, adjacentVertex)
              /\ visited' = visited \cup {adjacentVertex}
              /\ parent' = Put(parent, adjacentVertex, vertex)
              /\ distanceFromSource' =
                   Put(distanceFromSource, adjacentVertex, Num(bfsDistance))
  /\ edgeIndex' = edgeIndex + 1
  /\ returned' = Undefined
  /\ UNCHANGED <<searchFrame, lastError, phase, bfsQueue, bfsDistance,
                 queueIndex, callStack>>

\* the inner forEach is through: queue.forEach moves to its next vertex
BreadthFirstPaths_queueForEach_next ==
  /\ processor = "BreadthFirstPaths"
  /\ phase = "loop"
  /\ queueIndex < Len(bfsQueue)
  /\ edgeIndex >= Len(adjacencyList[bfsQueue[queueIndex + 1]])
  /\ queueIndex' = queueIndex + 1
  /\ edgeIndex' = 0
  /\ returned' = Undefined
  /\ UNCHANGED <<searchFrame, lastError, phase, bfsQueue, bfsNextQueue,
                 bfsDistance, callStack, visited, parent, distanceFromSource>>

\* the while loop going round again without distance++
BreadthFirstPaths_while_next_SameDistance ==
  /\ processor = "BreadthFirstPaths"
  /\ phase = "loop"
  /\ queueIndex >= Len(bfsQueue)
  /\ IF Len(bfsNextQueue) = 0
     THEN /\ phase' = "done"
          /\ UNCHANGED <<bfsQueue, bfsNextQueue, queueIndex>>
     ELSE /\ bfsQueue' = bfsNextQueue
          /\ bfsNextQueue' = <<>>
          /\ queueIndex' = 0
          /\ UNCHANGED phase
  /\ edgeIndex' = 0
  /\ returned' = Undefined
  /\ UNCHANGED <<searchFrame, lastError, callStack, visited, parent,
                 distanceFromSource, bfsDistance>>

\* queue.forEach is through: return if nextQueue is empty, else go round
\* the while loop again
BreadthFirstPaths_while_next ==
  /\ processor = "BreadthFirstPaths"
  /\ phase = "loop"
  /\ queueIndex >= Len(bfsQueue)
  /\ IF Len(bfsNextQueue) = 0
     THEN /\ phase' = "done"
          /\ UNCHANGED <<bfsQueue, bfsNextQueue, bfsDistance, queueIndex>>
     ELSE /\ bfsQueue' = bfsNextQueue
          /\ bfsNextQueue' = <<>>
          /\ bfsDistance' = bfsDistance + 1
          /\ queueIndex' = 0
          /\ UNCHANGED phase
  /\ edgeIndex' = 0
  /\ returned' = Undefined
  /\ UNCHANGED <<searchFrame, lastError, callStack, visited, parent,
                 distanceFromSource>>

\* new DepthFirstPaths(graph, sourceVertex): findPaths up to the forEach of
\* the first depthFirstSearch call
DepthFirstPaths_begin(source) ==
  /\ graphClass \in {"DirectedGraph", "UndirectedGraph"}
  /\ processor = "none"
  /\ processor' = "DepthFirstPaths"
  /\ sourceVertex' = JSString(source)
  /\ distanceFromSource' = EmptyObject
  /\ parent' = EmptyObject
  /\ IF JSString(source) \notin DOMAIN adjacencyList
     THEN /\ lastError' = "The source vertex is not in the graph"
          /\ phase' = "threw"
          /\ visited' = {}
          /\ callStack' = <<>>
     ELSE /\ visited' = {JSString(source)}
          /\ callStack' = <<[vertex |-> JSString(source), index |-> 0]>>
          /\ phase' = "loop"
          /\ lastError' = ""
  /\ returned' = Undefined
  /\ UNCHANGED <<graphVars, cycleVars, sorted, minPQ, reversedGraph, mstVars,
                 componentVars, structureVars, bfsQueue, bfsNextQueue,
                 bfsDistance, queueIndex, edgeIndex>>

\* the callback storing the parent again for a vertex already visited
DepthFirstPaths_callback_ParentAgain ==
  /\ processor = "DepthFirstPaths"
  /\ phase = "loop"
  /\ callStack # <<>>
  /\ callStack[Len(callStack)].index
       < Len(adjacencyList[callStack[Len(callStack)].vertex])
  /\ LET top == callStack[Len(callStack)]
         adjacentVertex == adjacencyList[top.vertex][top.index + 1]
         advanced == [callStack EXCEPT ![Len(callStack)].index = top.index + 1]
     IN  /\ parent' = Put(parent, adjacentVertex, top.vertex)
         /\ IF adjacentVertex \in visited
            THEN /\ callStack' = advanced
                 /\ UNCHANGED <<visited, phase, lastError>>
            ELSE /\ visited' = visited \cup {adjacentVertex}
                 /\ IF adjacentVertex \notin DOMAIN adjacencyList
                    THEN /\ phase' = "threw"
                         /\ lastError' = "The input vertex is not in the graph"
                         /\ callStack' = advanced
                    ELSE /\ callStack' =
                              Append(advanced,
                                     [vertex |-> adjacentVertex, index |-> 0])
                         /\ UNCHANGED <<phase, lastError>>
  /\ returned' = Undefined
  /\ UNCHANGED <<searchFrame, distanceFromSource, bfsQueue, bfsNextQueue,
                 bfsDistance, queueIndex, edgeIndex>>

\* one call of the forEach callback of depthFirstSearch, up to the forEach
\* of the depthFirstSearch call it makes
DepthFirstPaths_callback ==
  /\ processor = "DepthFirstPaths"
  /\ phase = "loop"
  /\ callStack # <<>>
  /\ callStack[Len(callStack)].index
       < Len(adjacencyList[callStack[Len(callStack)].vertex])
  /\ LET top == callStack[Len(callStack)]
         adjacentVertex == adjacencyList[top.vertex][top.index + 1]
         advanced == [callStack EXCEPT ![Len(callStack)].index = top.index + 1]
     IN  IF adjacentVertex \in visited
         THEN /\ callStack' = advanced
              /\ UNCHANGED <<visited, parent, phase, lastError>>
         ELSE /\ visited' = visited \cup {adjacentVertex}
              /\ parent' = Put(parent, adjacentVertex, top.vertex)
              /\ IF adjacentVertex \notin DOMAIN adjacencyList
                 THEN /\ phase' = "threw"
                      /\ lastError' = "The input vertex is not in the graph"
                      /\ callStack' = advanced
                 ELSE /\ callStack' =
                           Append(advanced,
                                  [vertex |-> adjacentVertex, index |-> 0])
                      /\ UNCHANGED <<phase, lastError>>
  /\ returned' = Undefined
  /\ UNCHANGED <<searchFrame, distanceFromSource, bfsQueue, bfsNextQueue,
                 bfsDistance, queueIndex, edgeIndex>>

\* the forEach of the innermost depthFirstSearch call is through: the call
\* returns, and findPaths with the outermost one
DepthFirstPaths_depthFirstSearch_return ==
  /\ processor = "DepthFirstPaths"
  /\ phase = "loop"
  /\ callStack # <<>>
  /\ callStack[Len(callStack)].index
       >= Len(adjacencyList[callStack[Len(callStack)].vertex])
  /\ callStack' = SubSeq(callStack, 1, Len(callStack) - 1)
  /\ phase' = IF Len(callStack) = 1 THEN "done" ELSE "loop"
  /\ returned' = Undefined
  /\ UNCHANGED <<searchFrame, lastError, visited, parent, distanceFromSource,
                 bfsQueue, bfsNextQueue, bfsDistance, queueIndex, edgeIndex>>

SpecSearchNext ==
  \/ \E v \in PathVertexInputs : DirectedGraph_addVertex(v)
  \/ \E v1, v2 \in PathVertexInputs : DirectedGraph_addEdge_bounded(v1, v2)
  \/ \E v \in PathVertexInputs : UndirectedGraph_addVertex(v)
  \/ \E v1, v2 \in PathVertexInputs : UndirectedGraph_addEdge_bounded(v1, v2)
  \/ \E v \in PathVertexInputs : DepthFirstPaths_begin(v)
  \/ DepthFirstPaths_callback
  \/ DepthFirstPaths_depthFirstSearch_return
  \/ \E v \in PathVertexInputs : BreadthFirstPaths_begin(v)
  \/ BreadthFirstPaths_callback
  \/ BreadthFirstPaths_queueForEach_next
  \/ BreadthFirstPaths_while_next
  \/ \E v \in PathVertexInputs : DepthFirstPaths_pathTo_call(v)
  \/ \E v \in PathVertexInputs : BreadthFirstPaths_shortestPathTo_call(v)

\* the two searches, callback by callback, on a directed or an undirected
\* graph
SpecSearch == (InitDirected \/ InitUndirected) /\ [][SpecSearchNext]_vars

(***************************************************************************)
(* C25: while BreadthFirstPaths processes a graph, a vertex is marked      *)
(* visited together with its parent and its distance; its distance is its  *)
(* least number of edges from the source; by then every vertex nearer to   *)
(* the source is visited and no visited vertex is farther; and its parent  *)
(* is a visited vertex exactly one edge nearer.                            *)
(***************************************************************************)
BreadthFirstSearching == processor = "BreadthFirstPaths" /\ phase = "loop"

C25_DiscoveredStep ==
  \A w \in visited' \ visited :
    LET d == HopDistance(adjacencyList, sourceVertex, w) IN
      /\ visited' = visited \cup {w}
      /\ w \in ReachedFrom(adjacencyList, {sourceVertex})
      /\ w \notin DOMAIN parent /\ w \notin DOMAIN distanceFromSource
      /\ distanceFromSource' = Put(distanceFromSource, w, Num(d))
      /\ \A u \in visited : distanceFromSource[u].value <= d
      /\ \A u \in ReachedFrom(adjacencyList, {sourceVertex}) :
           HopDistance(adjacencyList, sourceVertex, u) < d => u \in visited
      /\ \E p \in visited :
           /\ parent' = Put(parent, w, p)
           /\ distanceFromSource[p] = Num(d - 1)
           /\ Adjacent(adjacencyList, p, w)

C25_BreadthFirstOrder ==
  /\ [](BreadthFirstSearching =>
          /\ DOMAIN distanceFromSource = visited
          /\ DOMAIN parent = visited \ {sourceVertex})
  /\ [][BreadthFirstSearching =>
          /\ C25_DiscoveredStep
          /\ visited' = visited =>
               UNCHANGED <<parent, distanceFromSource>>]_vars

\* a vertex two edges from the source has been discovered, and so has its
\* parent one edge from the source, which has an entry back to the source
C25_Witness ==
  /\ BreadthFirstSearching
  /\ \E w \in visited :
       /\ distanceFromSource[w] = Num(2)
       /\ distanceFromSource[parent[w]] = Num(1)
       /\ Adjacent(adjacencyList, parent[w], sourceVertex)

(***************************************************************************)
(* C30: while and after DepthFirstPaths or BreadthFirstPaths processes a   *)
(* graph, the source has no parent, every other visited vertex has one,    *)
(* every parent is visited, the parent links of a visited vertex lead to   *)
(* the source in fewer steps than the graph has vertices, and no step      *)
(* changes or removes a parent once it is stored.                          *)
(***************************************************************************)
Searching ==
  /\ processor \in {"DepthFirstPaths", "BreadthFirstPaths"}
  /\ phase \in {"loop", "done"}

\* the vertices from v to the source along parent links, as pathTo and
\* shortestPathTo collect them
ParentLinks(v) ==
  IF processor = "DepthFirstPaths" THEN DepthFirstPaths_forLoop(v, <<>>)
  ELSE BreadthFirstPaths_forLoop(v, <<>>)

C30_ParentTree ==
  /\ [](Searching =>
          /\ sourceVertex \in visited
          /\ DOMAIN parent = visited \ {sourceVertex}
          /\ \A v \in DOMAIN parent : parent[v] \in visited
          /\ \A v \in visited :
               /\ ParentLinks(v).kind = "array"
               /\ Len(ParentLinks(v).array) - 1
                    < Cardinality(DOMAIN adjacencyList)
          /\ phase = "done" =>
               \A v \in PathVertexInputs :
                 PathProcessor_pathTo(v).kind # "never")
  /\ [][Searching =>
          \A v \in DOMAIN parent :
            v \in DOMAIN parent' /\ parent'[v] = parent[v]]_vars

\* DepthFirstPaths has processed three vertices from a source that has a
\* self-loop and an entry back to it, and pathTo has returned a path of all
\* three
C30_Witness ==
  /\ processor = "DepthFirstPaths"
  /\ phase = "done"
  /\ Cardinality(visited) = 3
  /\ Adjacent(adjacencyList, sourceVertex, sourceVertex)
  /\ \E v \in visited \ {sourceVertex} :
       Adjacent(adjacencyList, v, sourceVertex)
  /\ returned.kind = "array"
  /\ Len(returned.array) = 3

(***************************************************************************)
(* The getters of the cycle, sort and spanning tree processors             *)
(***************************************************************************)
\* a JavaScript Set a query returns
ReturnedSet(set) ==
  [kind |-> "set", number |-> 0, array |-> <<>>, boolean |-> FALSE,
   set |-> set]

\* hasCycle() of DirectedCycle and of UndirectedCycle
Cycle_hasCycle == Returned("boolean", 0, <<>>, checkCycle)

\* getTopologicalOrder()
TopologicalSort_getTopologicalOrder == Returned("array", 0, sorted, FALSE)

\* getMinimumSpanningTree()
MinimumSpanningTree_getMinimumSpanningTree == ReturnedSet(MSTedges)

\* what a getter leaves alone
getterFrame ==
  <<graphVars, processor, cycleVars, pathVars, reversedGraph, mstVars,
    componentVars, structureVars, searchVars, lastError>>

DirectedCycle_hasCycle_call ==
  /\ processor = "DirectedCycle"
  /\ returned' = Cycle_hasCycle
  /\ UNCHANGED <<getterFrame, sorted>>

UndirectedCycle_hasCycle_call ==
  /\ processor = "UndirectedCycle"
  /\ returned' = Cycle_hasCycle
  /\ UNCHANGED <<getterFrame, sorted>>

\* getTopologicalOrder() reversing the order in place before returning it
TopologicalSort_getTopologicalOrder_call_Reversing ==
  /\ processor = "TopologicalSort"
  /\ lastError = ""
  /\ sorted' = [i \in 1..Len(sorted) |-> sorted[Len(sorted) + 1 - i]]
  /\ returned' = Returned("array", 0, sorted', FALSE)
  /\ UNCHANGED getterFrame

\* getTopologicalOrder() of a TopologicalSort whose construction did not
\* throw
TopologicalSort_getTopologicalOrder_call ==
  /\ processor = "TopologicalSort"
  /\ lastError = ""
  /\ returned' = TopologicalSort_getTopologicalOrder
  /\ UNCHANGED <<getterFrame, sorted>>

\* getMinimumSpanningTree() of a MinimumSpanningTree whose construction did
\* not throw
MinimumSpanningTree_getMinimumSpanningTree_call ==
  /\ processor = "MinimumSpanningTree"
  /\ phase = "done"
  /\ returned' = MinimumSpanningTree_getMinimumSpanningTree
  /\ UNCHANGED <<getterFrame, sorted>>

SpecProcessorsNext ==
  \/ \E v \in PathVertexInputs : Graph_addVertex(v)
  \/ \E v1, v2 \in PathVertexInputs : Graph_addEdge_bounded(v1, v2)
  \/ \E v \in PathVertexInputs : DepthFirstPaths_constructor(v)
  \/ \E v \in PathVertexInputs : BreadthFirstPaths_constructor(v)
  \/ \E v \in PathVertexInputs : DepthFirstPaths_hasPathTo_call(v)
  \/ \E v \in PathVertexInputs : DepthFirstPaths_pathTo_call(v)
  \/ \E v \in PathVertexInputs : BreadthFirstPaths_hasPathTo_call(v)
  \/ \E v \in PathVertexInputs : BreadthFirstPaths_distanceTo_call(v)
  \/ \E v \in PathVertexInputs : BreadthFirstPaths_shortestPathTo_call(v)
  \/ ConnectedComponents_constructor
  \/ ConnectedComponents_getComponentCount_call
  \/ \E v \in PathVertexInputs : ConnectedComponents_getComponentId_call(v)
  \/ \E v \in PathVertexInputs : ShortestPath_constructor(v)
  \/ ShortestPath_while
  \/ \E v \in PathVertexInputs : ShortestPath_hasPathTo_call(v)
  \/ \E v \in PathVertexInputs : ShortestPath_distanceTo_call(v)
  \/ \E v \in PathVertexInputs : ShortestPath_shortestPathTo_call(v)
  \/ DirectedCycle_constructor
  \/ DirectedCycle_hasCycle_call
  \/ UndirectedCycle_constructor
  \/ UndirectedCycle_hasCycle_call
  \/ TopologicalSort_constructor
  \/ TopologicalSort_getTopologicalOrder_call
  \/ MinimumSpanningTree_constructor
  \/ MinimumSpanningTree_while
  \/ MinimumSpanningTree_getMinimumSpanningTree_call

\* the four graph classes with every processor and every query
SpecProcessors ==
  /\ \/ InitDirected
     \/ InitUndirected
     \/ InitWeighted("EdgeWeightedDirectedGraph")
     \/ InitWeighted("EdgeWeightedUndirectedGraph")
  /\ [][SpecProcessorsNext]_vars

(***************************************************************************)
(* C26: no step that constructs a processor, continues its processing or   *)
(* queries it changes the adjacency list, totalVertices or totalEdges of   *)
(* the graph, and a query leaves the value it returns for its argument as  *)
(* it was, so that the same call made again returns the same value.        *)
(***************************************************************************)
\* a query returns the value it had before the call and still has after it
Again(before, after) == returned' = before /\ after = before

C26_SameAgain ==
  /\ DirectedCycle_hasCycle_call \/ UndirectedCycle_hasCycle_call
       => Again(Cycle_hasCycle, Cycle_hasCycle')
  /\ TopologicalSort_getTopologicalOrder_call
       => Again(TopologicalSort_getTopologicalOrder,
                TopologicalSort_getTopologicalOrder')
  /\ MinimumSpanningTree_getMinimumSpanningTree_call
       => Again(MinimumSpanningTree_getMinimumSpanningTree,
                MinimumSpanningTree_getMinimumSpanningTree')
  /\ ConnectedComponents_getComponentCount_call
       => Again(ConnectedComponents_getComponentCount,
                ConnectedComponents_getComponentCount')
  /\ \A v \in PathVertexInputs :
       /\ ConnectedComponents_getComponentId_call(v)
            => Again(ConnectedComponents_getComponentId(v),
                     ConnectedComponents_getComponentId(v)')
       /\ DepthFirstPaths_hasPathTo_call(v)
            => Again(DepthFirstPaths_hasPathTo(v),
                     DepthFirstPaths_hasPathTo(v)')
       /\ DepthFirstPaths_pathTo_call(v)
            => Again(DepthFirstPaths_pathTo(v), DepthFirstPaths_pathTo(v)')
       /\ BreadthFirstPaths_hasPathTo_call(v)
            => Again(BreadthFirstPaths_hasPathTo(v),
                     BreadthFirstPaths_hasPathTo(v)')
       /\ BreadthFirstPaths_distanceTo_call(v)
            => Again(BreadthFirstPaths_distanceTo(v),
                     BreadthFirstPaths_distanceTo(v)')
       /\ BreadthFirstPaths_shortestPathTo_call(v)
            => Again(BreadthFirstPaths_shortestPathTo(v),
                     BreadthFirstPaths_shortestPathTo(v)')
       /\ ShortestPath_hasPathTo_call(v)
            => Again(ShortestPath_hasPathTo(v), ShortestPath_hasPathTo(v)')
       /\ ShortestPath_distanceTo_call(v)
            => Again(ShortestPath_distanceTo(v), ShortestPath_distanceTo(v)')
       /\ ShortestPath_shortestPathTo_call(v)
            => Again(ShortestPath_shortestPathTo(v),
                     ShortestPath_shortestPathTo(v)')

C26_GraphUntouched ==
  [][/\ (processor # "none" \/ processor' # "none") => UNCHANGED graphVars
     /\ C26_SameAgain]_vars

\* getTopologicalOrder() has returned an order of two or more vertices
C26_Witness ==
  /\ processor = "TopologicalSort"
  /\ totalEdges > 0
  /\ returned.kind = "array"
  /\ Len(returned.array) >= 2
  /\ returned.array = sorted

(***************************************************************************)
(* The processors with an explicit initialize()                            *)
(*   structures/graphs/processors/any/DepthFirstPaths.js                   *)
(*   unnamed/part_014 (BreadthFirstPaths)                                  *)
(*   structures/graphs/weighted/directed/processors/ShortestPath.js        *)
(*   unnamed/part_019, first ConnectedComponents                           *)
(*   processors/graph.unweighted.undirected.cycle.js                       *)
(* together with Cycle.js and TopologicalSort.js modelled above.  Their    *)
(* searches are the ones of the processors that initialize on construction *)
(* and reuse those operators.                                              *)
(***************************************************************************)
AlreadyInitialized == "Already initialized, my friend!"
PleaseInitialize == "Please initialize, my friend!"
InputVertexMissing == "The input vertex is not in the graph, my friend!"

\* what the constructors and initialize() of these processors leave alone
explicitFrame ==
  <<graphVars, checkCycle, reversedGraph, mstVars, structureVars, searchVars>>

\* new DepthFirstPaths(graph, sourceVertex)
DepthFirstPaths_constructor_uninitialized(source) ==
  /\ graphClass \in {"DirectedGraph", "UndirectedGraph"}
  /\ processor = "none"
  /\ processor' = "DepthFirstPathsExplicit"
  /\ initialized' = FALSE
  /\ parent' = EmptyObject
  /\ sourceVertex' = JSString(source)
  /\ visited' = {}
  /\ lastError' = ""
  /\ returned' = Undefined
  /\ UNCHANGED <<explicitFrame, hasCycle, sorted, distanceFromSource, minPQ,
                 phase, componentVars>>

\* initialize() running the search again on a processor already initialized
DepthFirstPaths_initialize_Again ==
  /\ processor = "DepthFirstPathsExplicit"
  /\ IF sourceVertex \notin DOMAIN adjacencyList
     THEN /\ lastError' = "The source vertex is not in the graph, my friend!"
          /\ UNCHANGED <<initialized, visited, parent>>
     ELSE LET r == DepthFirstPaths_depthFirstSearch(
                     adjacencyList, parent, sourceVertex,
                     visited \cup {sourceVertex})
          IN  /\ initialized' = TRUE
              /\ visited' = r.visited
              /\ parent' = r.parent
              /\ lastError' = IF r.threw THEN InputVertexMissing ELSE ""
  /\ returned' = Undefined
  /\ UNCHANGED <<explicitFrame, processor, hasCycle, sorted, sourceVertex,
                 distanceFromSource, minPQ, phase, componentVars>>

\* DepthFirstPaths.initialize()
DepthFirstPaths_initialize ==
  /\ processor = "DepthFirstPathsExplicit"
  /\ IF initialized
     THEN /\ lastError' = AlreadyInitialized
          /\ UNCHANGED <<initialized, visited, parent>>
     ELSE IF sourceVertex \notin DOMAIN adjacencyList
     THEN /\ lastError' = "The source vertex is not in the graph, my friend!"
          /\ UNCHANGED <<initialized, visited, parent>>
     ELSE LET r == DepthFirstPaths_depthFirstSearch(
                     adjacencyList, parent, sourceVertex,
                     visited \cup {sourceVertex})
          IN  /\ initialized' = TRUE
              /\ visited' = r.visited
              /\ parent' = r.parent
              /\ lastError' = IF r.threw THEN InputVertexMissing ELSE ""
  /\ returned' = Undefined
  /\ UNCHANGED <<explicitFrame, processor, hasCycle, sorted, sourceVertex,
                 distanceFromSource, minPQ, phase, componentVars>>

\* new BreadthFirstPaths(graph, sourceVertex)
BreadthFirstPaths_constructor_uninitialized(source) ==
  /\ graphClass \in {"DirectedGraph", "UndirectedGraph"}
  /\ processor = "none"
  /\ processor' = "BreadthFirstPathsExplicit"
  /\ distanceFromSource' = EmptyObject
  /\ initialized' = FALSE
  /\ parent' = EmptyObject
  /\ sourceVertex' = JSString(source)
  /\ visited' = {}
  /\ lastError' = ""
  /\ returned' = Undefined
  /\ UNCHANGED <<explicitFrame, hasCycle, sorted, minPQ, phase,
                 componentVars>>

\* BreadthFirstPaths.initialize()
BreadthFirstPaths_initialize ==
  /\ processor = "BreadthFirstPathsExplicit"
  /\ IF initialized
     THEN /\ lastError' = AlreadyInitialized
          /\ UNCHANGED <<initialized, visited, parent, distanceFromSource>>
     ELSE IF sourceVertex \notin DOMAIN adjacencyList
     THEN /\ lastError' = "Please input a source vertex into the constructor that exists in the graph."
          /\ UNCHANGED <<initialized, visited, parent, distanceFromSource>>
     ELSE LET r == BreadthFirstPaths_while(
                     adjacencyList, <<sourceVertex>>, 0,
                     [nextQueue |-> <<>>,
                      visited |-> visited \cup {sourceVertex},
                      parent |-> parent,
                      distanceFromSource |->
                        Put(distanceFromSource, sourceVertex, Num(0))])
          IN  /\ initialized' = TRUE
              /\ visited' = r.visited
              /\ parent' = r.parent
              /\ distanceFromSource' = r.distanceFromSource
              /\ lastError' = ""
  /\ returned' = Undefined
  /\ UNCHANGED <<explicitFrame, processor, hasCycle, sorted, sourceVertex,
                 minPQ, phase, componentVars>>

\* new ShortestPath(graph, sourceVertex)
ShortestPath_constructor_uninitialized(source) ==
  /\ graphClass \in {"EdgeWeightedDirectedGraph", "EdgeWeightedUndirectedGraph"}
  /\ processor = "none"
  /\ processor' = "ShortestPathExplicit"
  /\ distanceFromSource' = EmptyObject
  /\ initialized' = FALSE
  /\ parent' = EmptyObject
  /\ sourceVertex' = JSString(source)
  /\ visited' = {}
  /\ lastError' = ""
  /\ returned' = Undefined
  /\ UNCHANGED <<explicitFrame, hasCycle, sorted, minPQ, phase,
                 componentVars>>

\* ShortestPath.initialize() up to the while loop of dijkstra; the flag is
\* set before dijkstra checks the source
ShortestPath_initialize ==
  /\ processor = "ShortestPathExplicit"
  /\ phase # "loop"
  /\ IF initialized
     THEN /\ lastError' = AlreadyInitialized
          /\ UNCHANGED <<initialized, distanceFromSource, minPQ, phase>>
     ELSE /\ initialized' = TRUE
          /\ IF sourceVertex \notin DOMAIN adjacencyList
             THEN /\ lastError' =
                       "This source vertex is not in the graph, my friend!"
                  /\ phase' = "threw"
                  /\ UNCHANGED <<distanceFromSource, minPQ>>
             ELSE /\ lastError' = ""
                  /\ phase' = "loop"
                  /\ distanceFromSource' =
                       [vertex \in DOMAIN adjacencyList |->
                          IF vertex = sourceVertex THEN Num(0) ELSE Infinity]
                  /\ minPQ' = MinPQ_insert(MinPQ_new, Num(0), sourceVertex)
  /\ returned' = Undefined
  /\ UNCHANGED <<explicitFrame, processor, hasCycle, sorted, sourceVertex,
                 parent, visited, componentVars>>

\* new ConnectedComponents(graph)
ConnectedComponents_constructor_uninitialized ==
  /\ graphClass = "UndirectedGraph"
  /\ processor = "none"
  /\ processor' = "ConnectedComponentsExplicit"
  /\ componentCount' = 0
  /\ id' = EmptyObject
  /\ initialized' = FALSE
  /\ lastError' = ""
  /\ returned' = Undefined
  /\ UNCHANGED <<explicitFrame, hasCycle, sorted, pathVars>>

\* ConnectedComponents.initialize()
ConnectedComponents_initialize ==
  /\ processor = "ConnectedComponentsExplicit"
  /\ IF initialized
     THEN /\ lastError' = AlreadyInitialized
          /\ UNCHANGED <<initialized, id, componentCount>>
     ELSE LET r == ConnectedComponents_forIn(
                     adjacencyList, ForIn(adjacencyList), 1, componentCount,
                     [threw |-> FALSE, id |-> id, visited |-> {}])
          IN  /\ initialized' = TRUE
              /\ id' = r.id
              /\ componentCount' = r.componentCount
              /\ lastError' = IF r.threw THEN InputVertexMissing ELSE ""
  /\ returned' = Undefined
  /\ UNCHANGED <<explicitFrame, processor, hasCycle, sorted, pathVars>>

\* componentId(vertex)
ConnectedComponents_componentId(vertex) ==
  IF JSString(vertex) \notin DOMAIN adjacencyList
  THEN Thrown
  ELSE Returned("number", id[JSString(vertex)], <<>>, FALSE)

RECURSIVE UndirectedCycle_initialize_forOf(_, _, _, _, _, _)
RECURSIVE UndirectedCycle_initialize_depthFirstSearch(_, _, _, _, _)

\* the for...of loop of depthFirstSearch from the i-th entry on; flag is
\* cycleProcessor.hasCycle
UndirectedCycle_initialize_forOf(adj, vertex, parentVertex, i, visitedSet, flag) ==
  IF i > Len(adj[vertex])
  THEN [threw |-> FALSE, visited |-> visitedSet, hasCycle |-> flag]
  ELSE LET adjacentVertex == adj[vertex][i] IN
       IF adjacentVertex \in visitedSet
       THEN IF adjacentVertex = parentVertex
            THEN UndirectedCycle_initialize_forOf(
                   adj, vertex, parentVertex, i + 1, visitedSet, flag)
            ELSE [threw |-> FALSE, visited |-> visitedSet,
                  hasCycle |-> "true"]
       ELSE LET r == UndirectedCycle_initialize_depthFirstSearch(
                       adj, adjacentVertex, vertex,
                       visitedSet \cup {adjacentVertex}, flag)
            IN  IF r.threw THEN r
                ELSE UndirectedCycle_initialize_forOf(
                       adj, vertex, parentVertex, i + 1, r.visited,
                       r.hasCycle)

\* depthFirstSearch(graph, vertex, parent, visited, cycleProcessor)
UndirectedCycle_initialize_depthFirstSearch(adj, vertex, parentVertex, visitedSet, flag) ==
  IF vertex \notin DOMAIN adj
  THEN [threw |-> TRUE, visited |-> visitedSet, hasCycle |-> flag]
  ELSE UndirectedCycle_initialize_forOf(adj, vertex, parentVertex, 1,
                                        visitedSet, flag)

\* the for...in loop of initialize() from the i-th key on
RECURSIVE UndirectedCycle_initialize_forIn(_, _, _, _, _)
UndirectedCycle_initialize_forIn(adj, keys, i, visitedSet, flag) ==
  IF i > Len(keys) THEN [threw |-> FALSE, hasCycle |-> "false"]
  ELSE LET vertex == keys[i] IN
       IF vertex \in visitedSet
       THEN UndirectedCycle_initialize_forIn(adj, keys, i + 1, visitedSet,
                                             flag)
       ELSE LET r == UndirectedCycle_initialize_depthFirstSearch(
                       adj, vertex, "null", visitedSet \cup {vertex}, flag)
            IN  IF r.threw \/ r.hasCycle = "true"
                THEN [threw |-> r.threw, hasCycle |-> r.hasCycle]
                ELSE UndirectedCycle_initialize_forIn(adj, keys, i + 1,
                                                      r.visited, r.hasCycle)

\* new UndirectedCycle(graph)
UndirectedCycle_constructor_uninitialized ==
  /\ graphClass = "UndirectedGraph"
  /\ processor = "none"
  /\ processor' = "UndirectedCycleExplicit"
  /\ hasCycle' = "null"
  /\ initialized' = FALSE
  /\ lastError' = ""
  /\ returned' = Undefined
  /\ UNCHANGED <<explicitFrame, sorted, pathVars, componentVars>>

\* UndirectedCycle.initialize()
UndirectedCycle_initialize ==
  /\ processor = "UndirectedCycleExplicit"
  /\ IF initialized
     THEN /\ lastError' = AlreadyInitialized
          /\ UNCHANGED <<initialized, hasCycle>>
     ELSE /\ initialized' = TRUE
          /\ IF \/ UndirectedCycle_hasSelfLoop(adjacencyList)
                \/ UndirectedCycle_hasParallelEdges(adjacencyList)
             THEN /\ hasCycle' = "true"
                  /\ lastError' = ""
             ELSE LET r == UndirectedCycle_initialize_forIn(
                             adjacencyList, ForIn(adjacencyList), 1, {},
                             hasCycle)
                  IN  /\ hasCycle' = r.hasCycle
                      /\ lastError' = IF r.threw THEN InputVertexMissing
                                      ELSE ""
  /\ returned' = Undefined
  /\ UNCHANGED <<explicitFrame, processor, sorted, pathVars, componentVars>>

\* a query of a processor with an explicit initialize(): every one starts
\* with if (!this.initialized) throw, then does what the query of the
\* processor without initialize() does
Guarded_query(class, method, vertex) ==
  /\ processor = class
  /\ phase # "loop"
  /\ returned' =
       IF ~initialized THEN Thrown
       ELSE
       CASE class = "DepthFirstPathsExplicit" /\ method = "hasPathTo" ->
              DepthFirstPaths_hasPathTo(vertex)
         [] class = "DepthFirstPathsExplicit" /\ method = "pathTo" ->
              DepthFirstPaths_pathTo(vertex)
         [] class = "BreadthFirstPathsExplicit" /\ method = "hasPathTo" ->
              BreadthFirstPaths_hasPathTo(vertex)
         [] class = "BreadthFirstPathsExplicit" /\ method = "distanceTo" ->
              BreadthFirstPaths_distanceTo(vertex)
         [] class = "BreadthFirstPathsExplicit"
              /\ method = "shortestPathTo" ->
              BreadthFirstPaths_shortestPathTo(vertex)
         [] class = "ShortestPathExplicit" /\ method = "hasPathTo" ->
              ShortestPath_hasPathTo(vertex)
         [] class = "ShortestPathExplicit" /\ method = "distanceTo" ->
              ShortestPath_distanceTo(vertex)
         [] class = "ShortestPathExplicit" /\ method = "shortestPathTo" ->
              ShortestPath_shortestPathTo(vertex)
         [] class = "ConnectedComponentsExplicit" ->
              ConnectedComponents_componentId(vertex)
  /\ lastError' = IF ~initialized THEN PleaseInitialize
                  ELSE IF returned'.kind = "thrown" THEN InputVertexMissing
                  ELSE ""
  /\ UNCHANGED <<graphVars, processor, cycleVars, sorted, pathVars,
                 reversedGraph, mstVars, componentVars, structureVars,
                 searchVars>>

DepthFirstPaths_hasPathTo_guarded(vertex) ==
  Guarded_query("DepthFirstPathsExplicit", "hasPathTo", vertex)
DepthFirstPaths_pathTo_guarded(vertex) ==
  Guarded_query("DepthFirstPathsExplicit", "pathTo", vertex)
BreadthFirstPaths_hasPathTo_guarded(vertex) ==
  Guarded_query("BreadthFirstPathsExplicit", "hasPathTo", vertex)
BreadthFirstPaths_distanceTo_guarded(vertex) ==
  Guarded_query("BreadthFirstPathsExplicit", "distanceTo", vertex)
BreadthFirstPaths_shortestPathTo_guarded(vertex) ==
  Guarded_query("BreadthFirstPathsExplicit", "shortestPathTo", vertex)
ShortestPath_hasPathTo_guarded(vertex) ==
  Guarded_query("ShortestPathExplicit", "hasPathTo", vertex)
ShortestPath_distanceTo_guarded(vertex) ==
  Guarded_query("ShortestPathExplicit", "distanceTo", vertex)
ShortestPath_shortestPathTo_guarded(vertex) ==
  Guarded_query("ShortestPathExplicit", "shortestPathTo", vertex)
ConnectedComponents_componentId_guarded(vertex) ==
  Guarded_query("ConnectedComponentsExplicit", "componentId", vertex)

SpecExplicitNext ==
  \/ \E v \in PathVertexInputs : Graph_addVertex(v)
  \/ \E v1, v2 \in PathVertexInputs : Graph_addEdge_bounded(v1, v2)
  \/ \E v \in PathVertexInputs : DepthFirstPaths_constructor_uninitialized(v)
  \/ DepthFirstPaths_initialize
  \/ \E v \in PathVertexInputs : DepthFirstPaths_hasPathTo_guarded(v)
  \/ \E v \in PathVertexInputs : DepthFirstPaths_pathTo_guarded(v)
  \/ \E v \in PathVertexInputs : BreadthFirstPaths_constructor_uninitialized(v)
  \/ BreadthFirstPaths_initialize
  \/ \E v \in PathVertexInputs : BreadthFirstPaths_hasPathTo_guarded(v)
  \/ \E v \in PathVertexInputs : BreadthFirstPaths_distanceTo_guarded(v)
  \/ \E v \in PathVertexInputs : BreadthFirstPaths_shortestPathTo_guarded(v)
  \/ \E v \in PathVertexInputs : ShortestPath_constructor_uninitialized(v)
  \/ ShortestPath_initialize
  \/ ShortestPath_while
  \/ \E v \in PathVertexInputs : ShortestPath_hasPathTo_guarded(v)
  \/ \E v \in PathVertexInputs : ShortestPath_distanceTo_guarded(v)
  \/ \E v \in PathVertexInputs : ShortestPath_shortestPathTo_guarded(v)
  \/ ConnectedComponents_constructor_uninitialized
  \/ ConnectedComponents_initialize
  \/ \E v \in PathVertexInputs : ConnectedComponents_componentId_guarded(v)
  \/ Cycle_constructor
  \/ Cycle_initialize
  \/ UndirectedCycle_constructor_uninitialized
  \/ UndirectedCycle_initialize
  \/ Sort_constructor
  \/ Sort_initialize

\* the four graph classes with the processors that are initialized by a call
SpecExplicit ==
  /\ \/ InitDirected
     \/ InitUndirected
     \/ InitWeighted("EdgeWeightedDirectedGraph")
     \/ InitWeighted("EdgeWeightedUndirectedGraph")
  /\ [][SpecExplicitNext]_vars

\* a call of initialize() on one of the seven processors
AnyInitialize ==
  \/ DepthFirstPaths_initialize
  \/ BreadthFirstPaths_initialize
  \/ ShortestPath_initialize
  \/ ConnectedComponents_initialize
  \/ Cycle_initialize
  \/ UndirectedCycle_initialize
  \/ Sort_initialize

\* a call of a query on one of the processors that have queries
AnyGuardedQuery ==
  \E v \in PathVertexInputs :
    \/ DepthFirstPaths_hasPathTo_guarded(v)
    \/ DepthFirstPaths_pathTo_guarded(v)
    \/ BreadthFirstPaths_hasPathTo_guarded(v)
    \/ BreadthFirstPaths_distanceTo_guarded(v)
    \/ BreadthFirstPaths_shortestPathTo_guarded(v)
    \/ ShortestPath_hasPathTo_guarded(v)
    \/ ShortestPath_distanceTo_guarded(v)
    \/ ShortestPath_shortestPathTo_guarded(v)
    \/ ConnectedComponents_componentId_guarded(v)

\* what initialize() derives from the graph
derivedResults ==
  <<visited, parent, distanceFromSource, id, componentCount, sorted, hasCycle>>

C28_FailedInitialize ==
  [][(AnyInitialize /\ ~initialized /\ lastError' # "") =>
       /\ ~initialized'
       /\ UNCHANGED derivedResults]_vars

====
